---- MODULE Spec2Model ----
(***************************************************************************)
(* A model of the network synchronisation core of parallelcoin:            *)
(*   - the SyncManager dispatch loop and its handlers                      *)
(*     (src/pkg/netsync/manager.go),                                       *)
(*   - the callers of the SyncManager's message channel and Stop(),        *)
(*   - the ConnManager dispatch loop (src/unnamed/part_009),               *)
(*   - the mining controller (src/cmd/kopach/control/controller.go).       *)
(* Each group has its own specification over its own variables; the        *)
(* variables of the other groups stay at their initial values.             *)
(***************************************************************************)
EXTENDS Integers, Sequences, FiniteSets, TLC

(***************************************************************************)
(* Bounds of the model.                                                    *)
(***************************************************************************)
\* peers that can be connected to the SyncManager
NumPeers == 2
\* length of the main chain; block h (1..MainLen) has height h
MainLen == 4
\* transaction hashes
NumTxs == 2
\* headers of one headers message
MaxHeaders == 2
\* entries of one inv message (the wire allows MaxInvPerMsg)
MaxInvLen == 1

(***************************************************************************)
(* The program's caps, as bounds: they are scaled down so that the model   *)
(* can fill the maps; wire.MaxInvPerMsg is 50000, minInFlightBlocks 10 and *)
(* maxRejectedTxns 1000 in the source.                                     *)
(***************************************************************************)
MaxInvPerMsg == 2
minInFlightBlocks == 2
maxRejectedTxns == 2
maxRequestedBlocks == MaxInvPerMsg
maxRequestedTxns == MaxInvPerMsg

\* Go's nil for a peer, a checkpoint pointer or a list element
Nil == 0
\* the hash of the genesis block
Genesis == 0

Peers == 1..NumPeers
Blocks == 1..MainLen
Txs == 1..NumTxs
Heights == 0..MainLen
\* what LastBlock() of a peer may answer: behind every chain, or ahead
PeerHeights == {0, MainLen}
\* the blocks the network is relaying (announced by inv, handed in by the
\* miner): the tip of the main chain and its parent
RelayedBlocks == {h \in Blocks : h >= MainLen - 1}
\* the best block a node may start with: nothing but genesis, or all that is
\* not being relayed
StartBlocks == {Genesis, MainLen - 2}

\* a block off the main chain: it follows the parent of the tip, so it has
\* the height of the tip (the height of the last checkpoint) and another hash
ForkBlock == MainLen + 1

\* the PrevBlock field of the header of block h
PrevBlock(h) == IF h = ForkBlock THEN MainLen - 1 ELSE h - 1

RECURSIVE BlockHeight(_)
BlockHeight(h) == IF h = Genesis THEN 0 ELSE BlockHeight(PrevBlock(h)) + 1

RECURSIVE Ancestors(_)
Ancestors(h) == IF h = Genesis THEN {Genesis} ELSE {h} \cup Ancestors(PrevBlock(h))

\* the checkpoint tables a chain may be configured with (heights; the
\* checkpoint at height k is main chain block k)
CheckpointTables == {<< >>, <<MainLen>>, <<2, MainLen>>}

Checkpoint(k) == [Height |-> k, Hash |-> k]

VARIABLES
    \* SyncManager fields owned by blockHandler
    rejectedTxns, requestedTxns, requestedBlocks, syncPeer, peerStates,
    headersFirstMode, headerList, startHeader, nextCheckpoint,
    \* SyncManager.shutdown
    shutdown,
    \* configuration: chain.Checkpoints() and chainParams == RegressionTestParams
    checkpoints, regTest,
    \* the chain: BestSnapshot().Hash
    chainBest,
    \* what the last handled message did (calls made, messages pushed)
    out,
    \* the dispatch goroutine died of a nil dereference or panic(dbErr)
    panicked,
    \* SyncManager.started, msgChan and quit; where blockHandler, the callers
    \* of QueueBlock and QueueTx and the callers of Stop are; the signals sent
    \* on each caller's done channel
    started, msgChan, quit, handlerPc, callPc, done, stopPc,
    \* connHandler's pending and conns, the ConnReqs made so far, and
    \* ConnManager.failedAttempts, connReqCount and stop
    pending, conns, connReqs, failedAttempts, connReqCount, stop,
    \* ConnManager.Cfg: whether GetNewAddress is set, and TargetOutbound
    Cfg,
    \* what the last request made handleFailedConn schedule
    scheduled,
    \* the last Disconnect(id) or Remove(id) connHandler took, the ids Remove
    \* was handled for, and the failures handled since the last connection
    \* that was established: of each request, and of the requests that are
    \* not permanent
    request, removed, failures, failuresInARow,
    \* ConnManager.start and whether ConnManager.quit is closed; the
    \* connHandler, listenHandler and NewConnReq goroutines Start has launched
    \* and where connHandler is; the listeners of Cfg, with OnAccept set; the
    \* calls of Connect, NewConnReq, Disconnect and Remove, and where the
    \* caller of ConnManager.Stop is
    start, connQuit, connHandlers, connHandlerPc, listenHandlers, spawned,
    listeners, connCalls, connStopPc,
    \* the NewConnReq goroutines launched by Start and by handleFailedConn
    \* that have not begun, and where the NewConnReq of each ConnReq is
    launched, reqPc,
    \* where the caller of Pause is, and the calls of QueueBlock and QueueTx
    \* that sent their message while blockHandler was paused
    pausePc, meanwhile,
    \* where each caller of SyncManager.ProcessBlock is, its reply channel,
    \* what the call returned and what chain.ProcessBlock had answered, and
    \* the message blockHandler is handling
    pbPc, reply, result, chainRes, cur,
    \* the mining controller: the calls of Run made, the Controller each made
    \* (its fields, where its two goroutines are), cx.Controller, cx.KillAll
    \* and cx.NodeKill, whether the interrupt handlers have run, the clock,
    \* the mempool's LastUpdated, and what the last updateAndSendWork did
    runs, ctl, cxController, killAll, nodeKill, interrupted, now, txUpdated, work,
    \* where each caller of SyncManager.IsCurrent or SyncPeerID is, and what
    \* it was answered
    askPc, answer

smVars == <<rejectedTxns, requestedTxns, requestedBlocks, syncPeer, peerStates,
            headersFirstMode, headerList, startHeader, nextCheckpoint, shutdown,
            checkpoints, regTest, chainBest, out, panicked>>

queueVars == <<started, msgChan, quit, handlerPc, callPc, done, stopPc>>

lifeVars == <<start, connQuit, connHandlers, connHandlerPc, listenHandlers,
              spawned, listeners, connCalls, connStopPc>>

outVars == <<launched, reqPc>>

connVars == <<pending, conns, connReqs, failedAttempts, connReqCount, stop, Cfg,
              request, removed, failures, failuresInARow,
              scheduled, lifeVars, outVars>>

pauseVars == <<pausePc, meanwhile>>

procVars == <<pbPc, reply, result, chainRes, cur>>

ctlVars == <<runs, ctl, cxController, killAll, nodeKill, interrupted, now,
             txUpdated, work>>

askVars == <<askPc, answer>>

restVars == <<procVars, ctlVars, askVars>>

vars == <<smVars, queueVars, connVars, pauseVars, restVars>>

\* the record of a handler that has done nothing yet
OutNone(kind) ==
    [kind |-> kind, known |-> FALSE, requested |-> FALSE,
     called |-> 0, err |-> "none", disconnect |-> FALSE, reject |-> FALSE,
     orphan |-> FALSE, heightUpdated |-> FALSE, getblocks |-> FALSE,
     getheaders |-> FALSE, getdata |-> 0,
     eligible |-> FALSE, locFailed |-> FALSE,
     head |-> FALSE, checkpoint |-> FALSE, headersFirst |-> FALSE]

\* what is kept of the record once the handler has returned: of a block
\* message, whether the block went to the chain and what became of it,
\* whether it was the head of headerList and the next checkpoint, and of a
\* block the chain refused for breaking a rule or of a checkpoint block all
\* that was done; of a newPeer or donePeer message, whether startSync met a
\* candidate, whether chain.LatestBlockLocator then failed and what was sent;
\* of a tx message, what became of the transaction; of an inv message
\* handled in headers-first mode and of a headers message that got the peer
\* disconnected, all that was sent; of a call of fetchHeaderBlocks, the
\* hashes in its getdata
Seen(o) ==
    IF o.kind = "block"
    THEN [OutNone("block") EXCEPT !.known = o.known, !.requested = o.requested,
                                  !.called = o.called, !.err = o.err,
                                  !.disconnect = o.disconnect,
                                  !.reject = o.reject, !.orphan = o.orphan,
                                  !.head = o.head, !.checkpoint = o.checkpoint,
                                  !.getheaders = o.getheaders,
                                  !.getblocks = (o.getblocks /\ (o.err = "rule" \/ o.checkpoint)),
                                  !.heightUpdated = (o.heightUpdated /\ o.err = "rule")]
    ELSE IF o.kind \in {"newPeer", "donePeer"}
    THEN [OutNone(o.kind) EXCEPT !.known = o.known, !.eligible = o.eligible,
                                 !.locFailed = o.locFailed,
                                 !.getheaders = o.getheaders,
                                 !.getblocks = o.getblocks]
    ELSE IF o.kind = "tx"
    THEN [OutNone("tx") EXCEPT !.known = o.known, !.called = o.called,
                               !.err = o.err, !.reject = o.reject]
    ELSE IF o.kind = "inv" /\ o.headersFirst
    THEN [OutNone("inv") EXCEPT !.known = o.known, !.headersFirst = TRUE,
                                !.getdata = o.getdata, !.getblocks = o.getblocks]
    ELSE IF o.kind = "headers" /\ o.disconnect
    THEN [OutNone("headers") EXCEPT !.known = o.known, !.disconnect = TRUE,
                                    !.getdata = o.getdata,
                                    !.getheaders = o.getheaders]
    ELSE IF o.kind = "fetch"
    THEN [OutNone("fetch") EXCEPT !.getdata = o.getdata]
    ELSE OutNone("other")

\* the fields as one value, so that handlers compose as functions
SM == [rejectedTxns |-> rejectedTxns, requestedTxns |-> requestedTxns,
       requestedBlocks |-> requestedBlocks, syncPeer |-> syncPeer,
       peerStates |-> peerStates, headersFirstMode |-> headersFirstMode,
       headerList |-> headerList, startHeader |-> startHeader,
       nextCheckpoint |-> nextCheckpoint, shutdown |-> shutdown,
       checkpoints |-> checkpoints, regTest |-> regTest,
       chainBest |-> chainBest,
       out |-> out, panicked |-> panicked]

\* the handler has returned: its effects on the SyncManager
Returned(s) ==
    /\ rejectedTxns' = s.rejectedTxns
    /\ requestedTxns' = s.requestedTxns
    /\ requestedBlocks' = s.requestedBlocks
    /\ syncPeer' = s.syncPeer
    /\ peerStates' = s.peerStates
    /\ headersFirstMode' = s.headersFirstMode
    /\ headerList' = s.headerList
    /\ startHeader' = s.startHeader
    /\ nextCheckpoint' = s.nextCheckpoint
    /\ shutdown' = s.shutdown
    /\ checkpoints' = s.checkpoints
    /\ regTest' = s.regTest
    /\ chainBest' = s.chainBest
    /\ out' = Seen(s.out)
    /\ panicked' = s.panicked

\* a message is handled by the loop with the callers and Stop left out
LoopAlone == UNCHANGED <<queueVars, connVars, pauseVars, restVars>>

Begin(s, kind) == [s EXCEPT !.out = OutNone(kind)]

Panic(s) == [s EXCEPT !.panicked = TRUE]

(***************************************************************************)
(* The header list (container/list).  Its nodes have distinct hashes, so   *)
(* an element is named by its hash; an element that was removed from the   *)
(* list keeps its value and has no successor.                              *)
(***************************************************************************)
ListHashes(l) == {l[i].hash : i \in 1..Len(l)}

ElNext(l, h) ==
    IF \E i \in 1..Len(l) : l[i].hash = h /\ i < Len(l)
    THEN l[(CHOOSE i \in 1..Len(l) : l[i].hash = h) + 1].hash
    ELSE Nil

(***************************************************************************)
(* findNextHeaderCheckpoint: the first checkpoint above height, computed   *)
(* from the back of the table as the code does.                            *)
(***************************************************************************)
RECURSIVE findNextLoop(_, _, _, _)
findNextLoop(cps, height, i, next) ==
    IF i < 1 THEN next
    ELSE IF height >= cps[i] THEN next
    ELSE findNextLoop(cps, height, i - 1, cps[i])

findNextHeaderCheckpoint(cps, height) ==
    IF Len(cps) = 0 THEN Nil
    ELSE IF height >= cps[Len(cps)] THEN Nil
    ELSE findNextLoop(cps, height, Len(cps) - 1, cps[Len(cps)])

\* chain.HaveBlock: the blocks of the best chain (orphans expire)
HaveBlock(s, h) == h \in Ancestors(s.chainBest)

(***************************************************************************)
(* fetchHeaderBlocks                                                       *)
(***************************************************************************)
\* a loop that stops one request late
RECURSIVE fetchOneMore(_, _, _)
fetchOneMore(s, sh, numRequested) ==
    IF sh = Nil THEN s
    ELSE
      LET haveInv == HaveBlock(s, sh)
      IN IF ~haveInv /\ s.syncPeer \notin DOMAIN s.peerStates
         THEN Panic(s)
         ELSE
           LET s1 == IF haveInv THEN s
                     ELSE [s EXCEPT !.requestedBlocks = @ \cup {sh},
                                    !.peerStates[s.syncPeer].requestedBlocks = @ \cup {sh},
                                    !.out.getdata = @ + 1]
               n1 == IF haveInv THEN numRequested ELSE numRequested + 1
               nx == ElNext(s.headerList, sh)
               s2 == [s1 EXCEPT !.startHeader = nx]
           IN IF n1 > MaxInvPerMsg THEN s2 ELSE fetchOneMore(s2, nx, n1)

RECURSIVE fetchLoop(_, _, _)
fetchLoop(s, sh, numRequested) ==
    IF sh = Nil THEN s
    ELSE
      LET haveInv == HaveBlock(s, sh)
      IN IF ~haveInv /\ s.syncPeer \notin DOMAIN s.peerStates
         THEN Panic(s)
         ELSE
           LET s1 == IF haveInv THEN s
                     ELSE [s EXCEPT !.requestedBlocks = @ \cup {sh},
                                    !.peerStates[s.syncPeer].requestedBlocks = @ \cup {sh},
                                    !.out.getdata = @ + 1]
               n1 == IF haveInv THEN numRequested ELSE numRequested + 1
               nx == ElNext(s.headerList, sh)
               s2 == [s1 EXCEPT !.startHeader = nx]
           IN IF n1 >= MaxInvPerMsg THEN s2 ELSE fetchLoop(s2, nx, n1)

fetchHeaderBlocks(s) ==
    IF s.startHeader = Nil THEN s ELSE fetchLoop(s, s.startHeader, 0)

(***************************************************************************)
(* resetHeaderState                                                        *)
(***************************************************************************)
\* a reset that stays in headers-first mode
headerStateKeepsMode(s, newestHash, newestHeight) ==
    [s EXCEPT !.startHeader = Nil,
              !.headerList = IF s.nextCheckpoint # Nil
                             THEN <<[height |-> newestHeight, hash |-> newestHash]>>
                             ELSE << >>]

resetHeaderState(s, newestHash, newestHeight) ==
    [s EXCEPT !.headersFirstMode = FALSE,
              !.startHeader = Nil,
              !.headerList = IF s.nextCheckpoint # Nil
                             THEN <<[height |-> newestHeight, hash |-> newestHash]>>
                             ELSE << >>]

(***************************************************************************)
(* startSync.  lastBlock[p] is what p.LastBlock() answers; locOK is false  *)
(* when chain.LatestBlockLocator fails.  The range over the peerStates map *)
(* is in no fixed order and the last candidate met wins: any candidate.    *)
(***************************************************************************)
syncCandidates(s, lastBlock) ==
    {p \in DOMAIN s.peerStates :
        /\ s.peerStates[p].syncCandidate
        /\ ~(lastBlock[p] < BlockHeight(s.chainBest))}

\* a startSync that downloads headers first whether or not a checkpoint is ahead
startSyncHeadersFirstAlways(s, bestPeer, locOK) ==
    [s EXCEPT !.requestedBlocks = {}, !.headersFirstMode = TRUE, !.syncPeer = bestPeer]

\* a startSync that leaves the global requestedBlocks as it finds it
startSyncKeepsRequests(s, bestPeer, locOK) ==
    LET s1 == [s EXCEPT !.out.eligible = TRUE, !.out.locFailed = ~locOK]
    IN IF ~locOK THEN s1
       ELSE IF /\ s1.nextCheckpoint # Nil
               /\ BlockHeight(s1.chainBest) < Checkpoint(s1.nextCheckpoint).Height
               /\ ~s1.regTest
            THEN [s1 EXCEPT !.headersFirstMode = TRUE, !.syncPeer = bestPeer,
                            !.out.getheaders = TRUE]
            ELSE [s1 EXCEPT !.syncPeer = bestPeer, !.out.getblocks = TRUE]

startSyncWith(s, bestPeer, locOK) ==
    LET s1 == [s EXCEPT !.requestedBlocks = {}, !.out.eligible = TRUE,
                        !.out.locFailed = ~locOK]
    IN IF ~locOK THEN s1
       ELSE IF /\ s1.nextCheckpoint # Nil
               /\ BlockHeight(s1.chainBest) < Checkpoint(s1.nextCheckpoint).Height
               /\ ~s1.regTest
            THEN [s1 EXCEPT !.headersFirstMode = TRUE, !.syncPeer = bestPeer,
                            !.out.getheaders = TRUE]
            ELSE [s1 EXCEPT !.syncPeer = bestPeer, !.out.getblocks = TRUE]

startSync(s, lastBlock, locOK) ==
    IF s.syncPeer # Nil THEN {s}
    ELSE IF syncCandidates(s, lastBlock) = {} THEN {s}
    ELSE {startSyncWith(s, bestPeer, locOK) : bestPeer \in syncCandidates(s, lastBlock)}

(***************************************************************************)
(* handleNewPeerMsg.  isLocal: the peer's address is 127.0.0.1 or          *)
(* localhost (isSyncCandidate, consulted on the regression test chain).    *)
(***************************************************************************)
isSyncCandidate(s, isLocal) == IF s.regTest THEN isLocal ELSE TRUE

handleNewPeerMsg(s0, peer, isLocal, lastBlock, locOK) ==
    LET s == Begin(s0, "newPeer")
    IN IF s.shutdown # 0 THEN {s}
       ELSE
         LET cand == isSyncCandidate(s, isLocal)
             st == [syncCandidate |-> cand, requestQueue |-> << >>,
                    requestedTxns |-> {}, requestedBlocks |-> {}]
             s1 == [s EXCEPT !.peerStates =
                       [p \in DOMAIN s.peerStates \cup {peer} |->
                           IF p = peer THEN st ELSE s.peerStates[p]],
                     !.out.known = TRUE]
         IN IF cand /\ s1.syncPeer = Nil
            THEN startSync(s1, lastBlock, locOK)
            ELSE {s1}

(***************************************************************************)
(* handleDonePeerMsg                                                       *)
(***************************************************************************)
\* a handler that forgets the peer and keeps it as the sync peer
donePeerKeepsSyncPeer(s0, peer, lastBlock, locOK) ==
    LET s == Begin(s0, "donePeer")
    IN IF peer \notin DOMAIN s.peerStates THEN {s}
       ELSE {[s EXCEPT !.peerStates =
                          [p \in DOMAIN s.peerStates \ {peer} |-> s.peerStates[p]]]}

\* a handler that leaves the hashes the peer had requested in the global maps
donePeerKeepsRequests(s0, peer, lastBlock, locOK) ==
    LET s == Begin(s0, "donePeer")
    IN IF peer \notin DOMAIN s.peerStates THEN {s}
       ELSE
         LET s1 == [s EXCEPT !.peerStates =
                                [p \in DOMAIN s.peerStates \ {peer} |-> s.peerStates[p]],
                             !.out.known = TRUE]
         IN IF s1.syncPeer = peer
            THEN LET s2 == [s1 EXCEPT !.syncPeer = Nil]
                     s3 == IF s2.headersFirstMode
                           THEN resetHeaderState(s2, s2.chainBest, BlockHeight(s2.chainBest))
                           ELSE s2
                 IN startSync(s3, lastBlock, locOK)
            ELSE {s1}

handleDonePeerMsg(s0, peer, lastBlock, locOK) ==
    LET s == Begin(s0, "donePeer")
    IN IF peer \notin DOMAIN s.peerStates THEN {s}
       ELSE
         LET state == s.peerStates[peer]
             s1 == [s EXCEPT !.peerStates =
                                [p \in DOMAIN s.peerStates \ {peer} |-> s.peerStates[p]],
                             !.requestedTxns = @ \ state.requestedTxns,
                             !.requestedBlocks = @ \ state.requestedBlocks,
                             !.out.known = TRUE]
         IN IF s1.syncPeer = peer
            THEN LET s2 == [s1 EXCEPT !.syncPeer = Nil]
                     s3 == IF s2.headersFirstMode
                           THEN resetHeaderState(s2, s2.chainBest, BlockHeight(s2.chainBest))
                           ELSE s2
                 IN startSync(s3, lastBlock, locOK)
            ELSE {s1}

(***************************************************************************)
(* limitMap: when the map holds limit entries or more, one entry, whichever*)
(* the range over the map meets first, is deleted.  The results are the    *)
(* maps the call can leave.                                                *)
(***************************************************************************)
limitMap(m, limit) ==
    IF Cardinality(m) + 1 > limit /\ m # {}
    THEN {m \ {x} : x \in m}
    ELSE {m}

(***************************************************************************)
(* current.  isCur is chain.IsCurrent(), lbSync is syncPeer.LastBlock().   *)
(***************************************************************************)
\* chain.IsCurrent(): the answers the chain may give; the sync manager is
\* told nothing about when the chain reports that it is current
IsCurrent == BOOLEAN

current(s, isCur, lbSync) ==
    IF ~isCur THEN FALSE
    ELSE IF s.syncPeer = Nil THEN TRUE
    ELSE IF BlockHeight(s.chainBest) < lbSync THEN FALSE
    ELSE TRUE

(***************************************************************************)
(* The chain (an external collaborator).  ProcessBlock may reject any      *)
(* block with a rule error or fail on a corrupted database; a block of the *)
(* best chain is a duplicate (a rule error); the block after the best      *)
(* block is accepted and becomes the best block; any other block is an     *)
(* orphan.                                                                 *)
(***************************************************************************)
ProcessBlockResults(s, h) ==
    {[err |-> e, isOrphan |-> FALSE, best |-> s.chainBest] : e \in {"rule", "db"}}
    \cup
    (IF HaveBlock(s, h) THEN {}
     ELSE IF PrevBlock(h) # s.chainBest
     THEN {[err |-> "none", isOrphan |-> TRUE, best |-> s.chainBest]}
     ELSE {[err |-> "none", isOrphan |-> FALSE, best |-> h]})

(***************************************************************************)
(* handleTxMsg.  accepted: txMemPool.ProcessTransaction returned no error. *)
(***************************************************************************)
handleTxMsg(s0, peer, txHash, accepted) ==
    LET s == Begin(s0, "tx")
    IN IF peer \notin DOMAIN s.peerStates THEN {s}
       ELSE IF txHash \in s.rejectedTxns THEN {[s EXCEPT !.out.known = TRUE]}
       ELSE
         LET s1 == [s EXCEPT !.peerStates[peer].requestedTxns = @ \ {txHash},
                             !.requestedTxns = @ \ {txHash},
                             !.out.known = TRUE, !.out.called = 1]
         IN IF ~accepted
            THEN {[s1 EXCEPT !.rejectedTxns = m, !.out.err = "rule",
                             !.out.reject = TRUE] :
                     m \in limitMap(s1.rejectedTxns \cup {txHash}, maxRejectedTxns)}
            ELSE {s1}

(***************************************************************************)
(* handleInvMsg.  invVects is the InvList (at most MaxInvPerMsg entries,   *)
(* the wire limit); haveTxs are the transactions haveInventory knows.      *)
(***************************************************************************)
haveInventory(s, iv, haveTxs) ==
    IF iv.Type = "block" THEN HaveBlock(s, iv.Hash)
    ELSE IF iv.Type = "tx" THEN iv.Hash \in haveTxs
    ELSE TRUE

LastBlockIdx(invVects) ==
    IF \E i \in 1..Len(invVects) : invVects[i].Type = "block"
    THEN CHOOSE i \in 1..Len(invVects) :
            /\ invVects[i].Type = "block"
            /\ \A j \in (i + 1)..Len(invVects) : invVects[j].Type # "block"
    ELSE 0

\* a first loop that queues what is announced in headers-first mode too
RECURSIVE invScanInHeadersFirst(_, _, _, _, _, _)
invScanInHeadersFirst(s, peer, invVects, i, lastBlock, haveTxs) ==
    IF i > Len(invVects) THEN s
    ELSE
      LET iv == invVects[i]
          next(t) == invScanInHeadersFirst(t, peer, invVects, i + 1, lastBlock, haveTxs)
      IN IF iv.Type \notin {"block", "tx"} THEN next(s)
         ELSE IF ~haveInventory(s, iv, haveTxs)
         THEN IF iv.Type = "tx" /\ iv.Hash \in s.rejectedTxns THEN next(s)
              ELSE next([s EXCEPT !.peerStates[peer].requestQueue = Append(@, iv)])
         ELSE IF iv.Type = "block" /\ i = lastBlock
         THEN next([s EXCEPT !.out.getblocks = TRUE])
         ELSE next(s)

\* the first loop: what is appended to the request queue, what is pushed
RECURSIVE invScan(_, _, _, _, _, _)
invScan(s, peer, invVects, i, lastBlock, haveTxs) ==
    IF i > Len(invVects) THEN s
    ELSE
      LET iv == invVects[i]
          next(t) == invScan(t, peer, invVects, i + 1, lastBlock, haveTxs)
      IN IF iv.Type \notin {"block", "tx"} THEN next(s)
         ELSE IF s.headersFirstMode THEN next(s)
         ELSE IF ~haveInventory(s, iv, haveTxs)
         THEN IF iv.Type = "tx" /\ iv.Hash \in s.rejectedTxns THEN next(s)
              ELSE next([s EXCEPT !.peerStates[peer].requestQueue = Append(@, iv)])
         ELSE IF iv.Type = "block" /\ i = lastBlock
         THEN next([s EXCEPT !.out.getblocks = TRUE])
         ELSE next(s)

\* the second loop: the request queue is drained into one getdata
RECURSIVE invDrain(_, _, _, _)
invDrain(s, peer, queue, numRequested) ==
    IF queue = << >> THEN {[s EXCEPT !.peerStates[peer].requestQueue = queue]}
    ELSE
      LET iv == Head(queue)
          rest == Tail(queue)
          after ==
            IF iv.Type = "block" /\ iv.Hash \notin s.requestedBlocks
            THEN {[st |-> [s EXCEPT !.requestedBlocks = m,
                                    !.peerStates[peer].requestedBlocks = @ \cup {iv.Hash},
                                    !.out.getdata = @ + 1],
                   n |-> numRequested + 1] :
                     m \in limitMap(s.requestedBlocks \cup {iv.Hash}, maxRequestedBlocks)}
            ELSE IF iv.Type = "tx" /\ iv.Hash \notin s.requestedTxns
            THEN {[st |-> [s EXCEPT !.requestedTxns = m,
                                    !.peerStates[peer].requestedTxns = @ \cup {iv.Hash},
                                    !.out.getdata = @ + 1],
                   n |-> numRequested + 1] :
                     m \in limitMap(s.requestedTxns \cup {iv.Hash}, maxRequestedTxns)}
            ELSE {[st |-> s, n |-> numRequested]}
      IN UNION {IF a.n >= MaxInvPerMsg
                THEN {[a.st EXCEPT !.peerStates[peer].requestQueue = rest]}
                ELSE invDrain(a.st, peer, rest, a.n) : a \in after}

handleInvMsg(s0, peer, invVects, isCur, lbSync, haveTxs) ==
    LET s == Begin(s0, "inv")
    IN IF peer \notin DOMAIN s.peerStates THEN {s}
       ELSE
         LET lastBlock == LastBlockIdx(invVects)
             s1 == [s EXCEPT !.out.known = TRUE,
                             !.out.headersFirst = s.headersFirstMode]
         IN IF peer # s1.syncPeer /\ ~current(s1, isCur, lbSync) THEN {s1}
            ELSE
              LET s2 == IF /\ lastBlock # 0
                           /\ current(s1, isCur, lbSync)
                           /\ invVects[lastBlock].Hash \in Ancestors(s1.chainBest)
                        THEN [s1 EXCEPT !.out.heightUpdated = TRUE]
                        ELSE s1
                  s3 == invScan(s2, peer, invVects, 1, lastBlock, haveTxs)
              IN invDrain(s3, peer, s3.peerStates[peer].requestQueue, 0)

(***************************************************************************)
(* handleHeadersMsg.  headers is the list of the hashes of the headers;    *)
(* the header of block h names PrevBlock(h).                               *)
(***************************************************************************)
\* the loop over msg.Headers: [st, verdict], verdict one of
\* "checkpoint" (receivedCheckpoint), "more" (loop ended), "return"
RECURSIVE headersLoop(_, _, _, _)
headersLoop(s, peer, headers, i) ==
    IF i > Len(headers) THEN [st |-> s, verdict |-> "more"]
    ELSE
      LET blockHash == headers[i]
      IN IF s.headerList = << >>
         THEN [st |-> [s EXCEPT !.out.disconnect = TRUE], verdict |-> "return"]
         ELSE
           LET prevNode == s.headerList[Len(s.headerList)]
           IN IF prevNode.hash # PrevBlock(blockHash)
              THEN [st |-> [s EXCEPT !.out.disconnect = TRUE], verdict |-> "return"]
              ELSE
                LET node == [height |-> prevNode.height + 1, hash |-> blockHash]
                    s1 == [s EXCEPT !.headerList = Append(@, node),
                                    !.startHeader = IF @ = Nil THEN blockHash ELSE @]
                IN IF s1.nextCheckpoint = Nil THEN [st |-> Panic(s1), verdict |-> "return"]
                   ELSE IF node.height = Checkpoint(s1.nextCheckpoint).Height
                   THEN IF node.hash = Checkpoint(s1.nextCheckpoint).Hash
                        THEN [st |-> s1, verdict |-> "checkpoint"]
                        ELSE [st |-> [s1 EXCEPT !.out.disconnect = TRUE],
                              verdict |-> "return"]
                   ELSE headersLoop(s1, peer, headers, i + 1)

\* a handler that answers a header it cannot accept by asking for more
headersAskedAgain(s0, peer, headers) ==
    LET s == Begin(s0, "headers")
    IN IF peer \notin DOMAIN s.peerStates THEN s
       ELSE
         LET s1 == [s EXCEPT !.out.known = TRUE]
         IN IF ~s1.headersFirstMode THEN [s1 EXCEPT !.out.disconnect = TRUE]
            ELSE IF Len(headers) = 0 THEN s1
            ELSE
              LET r == headersLoop(s1, peer, headers, 1)
              IN IF r.verdict = "checkpoint"
                 THEN fetchHeaderBlocks([r.st EXCEPT !.headerList = Tail(@)])
                 ELSE IF r.st.nextCheckpoint = Nil THEN Panic(r.st)
                 ELSE [r.st EXCEPT !.out.disconnect = FALSE, !.out.getheaders = TRUE]

handleHeadersMsg(s0, peer, headers) ==
    LET s == Begin(s0, "headers")
    IN IF peer \notin DOMAIN s.peerStates THEN s
       ELSE
         LET s1 == [s EXCEPT !.out.known = TRUE]
         IN IF ~s1.headersFirstMode THEN [s1 EXCEPT !.out.disconnect = TRUE]
            ELSE IF Len(headers) = 0 THEN s1
            ELSE
              LET r == headersLoop(s1, peer, headers, 1)
              IN IF r.verdict = "return" THEN r.st
                 ELSE IF r.verdict = "checkpoint"
                 THEN fetchHeaderBlocks([r.st EXCEPT !.headerList = Tail(@)])
                 ELSE IF r.st.nextCheckpoint = Nil THEN Panic(r.st)
                 ELSE [r.st EXCEPT !.out.getheaders = TRUE]

(***************************************************************************)
(* handleBlockMsg.  cbHeight is the height read from the coinbase, 0 when  *)
(* the header version carries none or it cannot be extracted; res is what  *)
(* chain.ProcessBlock does; locOK is false when LatestBlockLocator fails.  *)
(***************************************************************************)
\* a headers-first part that returns to normal mode at the first checkpoint
checkpointEndsHeadersFirst(s, pp, blockHash, isCheckpointBlock) ==
    IF ~s.headersFirstMode THEN s
    ELSE IF ~isCheckpointBlock
    THEN IF /\ s.startHeader # Nil
            /\ Cardinality(s.peerStates[pp].requestedBlocks) < minInFlightBlocks
         THEN fetchHeaderBlocks(s)
         ELSE s
    ELSE [s EXCEPT !.nextCheckpoint =
                       findNextHeaderCheckpoint(s.checkpoints,
                                                Checkpoint(s.nextCheckpoint).Height),
                   !.headersFirstMode = FALSE, !.headerList = << >>,
                   !.out.getblocks = TRUE]

\* lines 641-692: the headers-first part, after the block was processed
blockHeadersFirst(s, pp, blockHash, isCheckpointBlock) ==
    IF ~s.headersFirstMode THEN s
    ELSE IF ~isCheckpointBlock
    THEN IF /\ s.startHeader # Nil
            /\ Cardinality(s.peerStates[pp].requestedBlocks) < minInFlightBlocks
         THEN fetchHeaderBlocks(s)
         ELSE s
    ELSE
      LET prevHeight == Checkpoint(s.nextCheckpoint).Height
          nc == findNextHeaderCheckpoint(s.checkpoints, prevHeight)
          s1 == [s EXCEPT !.nextCheckpoint = nc]
      IN IF nc # Nil THEN [s1 EXCEPT !.out.getheaders = TRUE]
         ELSE [s1 EXCEPT !.headersFirstMode = FALSE, !.headerList = << >>,
                         !.out.getblocks = TRUE]

\* lines 573-640: the orphan or accepted block, then the headers-first part
blockProcessed(s, pp, blockHash, cbHeight, isOrphan, isCheckpointBlock, locOK) ==
    LET s1 == IF isOrphan
              THEN [s EXCEPT !.out.orphan = TRUE, !.out.getblocks = locOK,
                             !.out.heightUpdated = (cbHeight # 0)]
              ELSE [s EXCEPT !.rejectedTxns = {},
                             !.out.heightUpdated = (BlockHeight(s.chainBest) # 0)]
    IN blockHeadersFirst(s1, pp, blockHash, isCheckpointBlock)

\* a handler that lets every block in
everyBlockLetIn(s, pp, blockHash) == FALSE

\* lines 480-498: the peer was not asked for the block, and the chain is not
\* the regression test chain, where unrequested blocks are let in
unrequestedBlock(s, pp, blockHash) ==
    blockHash \notin s.peerStates[pp].requestedBlocks /\ ~s.regTest

handleBlockMsg(s0, pp, blockHash, cbHeight, res, locOK) ==
    LET s == Begin(s0, "block")
    IN IF pp \notin DOMAIN s.peerStates THEN s
       ELSE IF unrequestedBlock(s, pp, blockHash)
       THEN [s EXCEPT !.out.known = TRUE, !.out.disconnect = TRUE]
       ELSE
         LET isFirst == /\ s.headersFirstMode
                        /\ s.headerList # << >>
                        /\ s.headerList[1].hash = blockHash
         IN IF isFirst /\ s.nextCheckpoint = Nil THEN Panic(s)
            ELSE
              LET isCheckpointBlock ==
                      isFirst /\ blockHash = Checkpoint(s.nextCheckpoint).Hash
                  s1 == [s EXCEPT
                           !.headerList = IF isFirst /\ ~isCheckpointBlock
                                          THEN Tail(@) ELSE @,
                           !.peerStates[pp].requestedBlocks = @ \ {blockHash},
                           !.requestedBlocks = @ \ {blockHash},
                           !.chainBest = res.best,
                           !.out.known = TRUE, !.out.called = 1, !.out.err = res.err,
                           !.out.head = isFirst,
                           !.out.checkpoint = isCheckpointBlock,
                           !.out.requested =
                               (blockHash \in s.peerStates[pp].requestedBlocks)]
              IN IF res.err # "none"
                 THEN IF cbHeight + 1 <= BlockHeight(s1.chainBest)
                      THEN IF res.err = "db" THEN Panic(s1)
                           ELSE [s1 EXCEPT !.out.reject = TRUE]
                      ELSE blockProcessed(s1, pp, blockHash, cbHeight, TRUE,
                                          isCheckpointBlock, locOK)
                 ELSE blockProcessed(s1, pp, blockHash, cbHeight, res.isOrphan,
                                     isCheckpointBlock, locOK)

(***************************************************************************)
(* The processBlockMsg case of blockHandler: a block handed in by          *)
(* SyncManager.ProcessBlock goes to the chain, and the result is sent on   *)
(* the reply channel, a second time after an error.                        *)
(***************************************************************************)
handleProcessBlockMsg(s0, blockHash, res) ==
    LET s == Begin(s0, "processBlock")
    IN [s EXCEPT !.chainBest = res.best,
                 !.out.called = 1, !.out.err = res.err]

(***************************************************************************)
(* The state after New(config): the chain may already hold a prefix of     *)
(* the main chain.                                                         *)
(***************************************************************************)
SyncInit(tables, starts) ==
    /\ checkpoints \in tables
    /\ regTest \in (IF checkpoints = << >> THEN BOOLEAN ELSE {FALSE})
    /\ chainBest \in starts
    /\ rejectedTxns = {}
    /\ requestedTxns = {}
    /\ requestedBlocks = {}
    /\ syncPeer = Nil
    /\ peerStates = << >>
    /\ headersFirstMode = FALSE
    /\ nextCheckpoint = findNextHeaderCheckpoint(checkpoints, BlockHeight(chainBest))
    /\ headerList = IF nextCheckpoint # Nil
                    THEN <<[height |-> BlockHeight(chainBest), hash |-> chainBest]>>
                    ELSE << >>
    /\ startHeader = Nil
    /\ shutdown = 0
    /\ out = OutNone("init")
    /\ panicked = FALSE

(***************************************************************************)
(* The messages the dispatch loop can take from msgChan.                   *)
(***************************************************************************)
InvVects == ([Type : {"block"}, Hash : RelayedBlocks]) \cup ([Type : {"tx"}, Hash : Txs])
            \cup {[Type |-> "other", Hash |-> 1]}

SeqsUpTo(S, n) == UNION {[1..k -> S] : k \in 0..n}

InvLists == SeqsUpTo(InvVects, IF MaxInvLen < MaxInvPerMsg THEN MaxInvLen ELSE MaxInvPerMsg) \ {<< >>}

\* inv messages that announce no transaction
BlockInvLists == {l \in InvLists : \A i \in 1..Len(l) : l[i].Type # "tx"}

\* inv messages that announce no block
TxInvLists == {l \in InvLists : \A i \in 1..Len(l) : l[i].Type # "block"}

HeaderLists == SeqsUpTo(Blocks, MaxHeaders)

\* headers messages that may name the block off the main chain
ForkHeaderLists == SeqsUpTo(Blocks \cup {ForkBlock}, MaxHeaders)

\* a header that does not connect to prev
DoesNotFollow(prev) == IF prev = 0 THEN 2 ELSE 1

Running == ~panicked

\* Inputs a handler does not read on the path it takes are not varied, and of
\* the inputs that take the same path to the same result (the blocks a peer
\* was not asked for, the headers that do not connect) one is drawn.
NewPeerMsg ==
    /\ Running
    /\ LoopAlone
    /\ \E peer \in Peers \ DOMAIN peerStates :
         \E isLocal \in (IF regTest THEN BOOLEAN ELSE {TRUE}) :
           \E lastBlock \in (IF syncPeer = Nil /\ shutdown = 0
                             THEN [DOMAIN peerStates \cup {peer} -> PeerHeights]
                             ELSE {[p \in DOMAIN peerStates \cup {peer} |-> 0]}) :
             \E locOK \in (IF syncPeer = Nil /\ shutdown = 0 THEN BOOLEAN ELSE {TRUE}) :
               \E t \in handleNewPeerMsg(SM, peer, isLocal, lastBlock, locOK) : Returned(t)

DonePeerMsg ==
    /\ Running
    /\ LoopAlone
    /\ \E peer \in Peers :
         \E lastBlock \in (IF peer = syncPeer
                           THEN [DOMAIN peerStates \ {peer} -> PeerHeights]
                           ELSE {[p \in DOMAIN peerStates \ {peer} |-> 0]}) :
           \E locOK \in (IF peer = syncPeer THEN BOOLEAN ELSE {TRUE}) :
             \E t \in handleDonePeerMsg(SM, peer, lastBlock, locOK) : Returned(t)

TxMsg ==
    /\ Running
    /\ LoopAlone
    /\ \E peer \in Peers :
         \E txHash \in (IF peer \in DOMAIN peerStates THEN Txs ELSE {1}) :
           \E accepted \in (IF peer \in DOMAIN peerStates /\ txHash \notin rejectedTxns
                            THEN BOOLEAN ELSE {TRUE}) :
             \E t \in handleTxMsg(SM, peer, txHash, accepted) : Returned(t)

InvMsgOf(lists) ==
    /\ Running
    /\ LoopAlone
    /\ \E peer \in Peers :
         \E invVects \in (IF peer \in DOMAIN peerStates THEN lists
                          ELSE {<<[Type |-> "other", Hash |-> 1]>>}) :
           \E isCur \in (IF peer \in DOMAIN peerStates THEN IsCurrent ELSE {TRUE}) :
             \E lbSync \in (IF peer \in DOMAIN peerStates /\ isCur /\ syncPeer # Nil
                            THEN PeerHeights ELSE {0}) :
               \E haveTxs \in (IF \E i \in 1..Len(invVects) : invVects[i].Type = "tx"
                               THEN SUBSET Txs ELSE {{}}) :
                 \E t \in handleInvMsg(SM, peer, invVects, isCur, lbSync, haveTxs) :
                   Returned(t)

InvMsg == InvMsgOf(BlockInvLists)

TxInvMsg == InvMsgOf(TxInvLists)

HeadersMsgOf(lists) ==
    /\ Running
    /\ LoopAlone
    /\ \E peer \in Peers :
         \E headers \in (IF peer \in DOMAIN peerStates /\ headersFirstMode
                         THEN {l \in lists : \A i \in 1..Len(l) :
                                 LET prev == IF i > 1 THEN l[i - 1]
                                             ELSE IF headerList = << >> THEN l[1]
                                             ELSE headerList[Len(headerList)].hash
                                 IN \/ PrevBlock(l[i]) = prev
                                    \/ i = Len(l) /\ l[i] = DoesNotFollow(prev)}
                         ELSE {<<1>>}) :
           Returned(handleHeadersMsg(SM, peer, headers))

HeadersMsg == HeadersMsgOf(HeaderLists)

ForkHeadersMsg == HeadersMsgOf(ForkHeaderLists)

BlockMsg ==
    /\ Running
    /\ LoopAlone
    /\ \E pp \in Peers :
         \E blockHash \in (IF pp \notin DOMAIN peerStates THEN {1}
                           ELSE IF regTest THEN Blocks
                           ELSE peerStates[pp].requestedBlocks \cup
                                {h \in Blocks : \A g \in Blocks :
                                    g \in peerStates[pp].requestedBlocks \/ h <= g}) :
           LET handled == /\ pp \in DOMAIN peerStates
                          /\ (blockHash \in peerStates[pp].requestedBlocks \/ regTest)
           IN \E res \in (IF handled THEN ProcessBlockResults(SM, blockHash)
                          ELSE {[err |-> "rule", isOrphan |-> FALSE, best |-> chainBest]}) :
                \E cbHeight \in (IF handled /\ (res.isOrphan \/ res.err # "none")
                                 THEN {0, BlockHeight(blockHash)} ELSE {0}) :
                  \E locOK \in (IF /\ handled
                                   /\ \/ res.isOrphan
                                      \/ /\ res.err # "none"
                                         /\ ~(cbHeight + 1 <= BlockHeight(chainBest))
                                THEN BOOLEAN ELSE {TRUE}) :
                    Returned(handleBlockMsg(SM, pp, blockHash, cbHeight, res, locOK))

ProcessBlockMsg ==
    /\ Running
    /\ LoopAlone
    /\ \E blockHash \in RelayedBlocks :
         \E res \in ProcessBlockResults(SM, blockHash) :
           Returned(handleProcessBlockMsg(SM, blockHash, res))

(***************************************************************************)
(* Start, Stop, QueueBlock and QueueTx against blockHandler.  msgChan has  *)
(* room for MsgChanCap messages; a done channel takes the signals it is    *)
(* sent; call c hands in a block when c is odd, a transaction when even.   *)
(***************************************************************************)
NumCalls == 2
\* callers of SyncManager.ProcessBlock
NumProcessCalls == 2
NumStops == 2
MaxStarts == 2
MsgChanCap == 2

Calls == 1..NumCalls
Stoppers == 1..NumStops

CallKind(c) == IF c % 2 = 1 THEN "block" ELSE "tx"

\* the pauseMsg on msgChan, which holds every other message as the number
\* of its call
PauseMsg == 0

\* calls of control.Run
MaxRuns == 2
\* the clock counts half minutes up to MaxNow
MaxNow == 3
\* time.Minute and the 5 of time.Second*5, backoffTime being in seconds
Minute == 2
backoffLimit == 5

Controllers == 1..MaxRuns

\* oldBlocks: ok is false while nothing was stored (the type assertion
\* fails); shards are the shards of a template
NoShards == [ok |-> FALSE, shards |-> << >>]

\* no Controller
\* halt is how far the interrupt handler of the controller has come: "none",
\* "paused" (the pause shards are sent), "closed" (the multicast channel is
\* closed), "done" (quit is signalled)
NoCtl == [active |-> FALSE, isMining |-> FALSE, quit |-> FALSE, halt |-> "none",
          watcher |-> "none", backoffTime |-> 0,
          advertiser |-> "none", once |-> FALSE,
          oldBlocks |-> NoShards, lastTxUpdate |-> 0, lastGenerated |-> 0]

\* no tick of an advertiser (tick) and no call of updateAndSendWork (i);
\* halt is how far the interrupt handler had come at the tick
NoWork == [tick |-> 0, halt |-> "none",
           i |-> 0, getNew |-> FALSE, regenerated |-> FALSE, cached |-> NoShards,
           sent |-> << >>]

CtlInit ==
    /\ runs = 0
    /\ ctl = [i \in Controllers |-> NoCtl]
    /\ cxController = FALSE
    /\ killAll = FALSE
    /\ nodeKill = FALSE
    /\ interrupted = FALSE
    /\ now = 0
    /\ txUpdated = 0
    /\ work = NoWork

ProcessCalls == 1..NumProcessCalls

\* callers of SyncManager.IsCurrent (odd) and SyncPeerID (even)
NumAskCalls == 2

AskCalls == 1..NumAskCalls

AskKind(c) == IF c % 2 = 1 THEN "isCurrent" ELSE "getSyncPeer"

AskInit ==
    /\ askPc = [c \in AskCalls |-> "start"]
    /\ answer = [c \in AskCalls |-> 0]

\* no message, no response
NoMsg == [kind |-> "none", c |-> 0, block |-> 0, peer |-> 0]

NoResponse == [isOrphan |-> FALSE, err |-> "unset"]

NoResult == [err |-> "unset", isOrphan |-> FALSE, best |-> 0]

ProcInit ==
    /\ pbPc = [c \in ProcessCalls |-> "start"]
    /\ reply = [c \in ProcessCalls |-> << >>]
    /\ result = [c \in ProcessCalls |-> NoResponse]
    /\ chainRes = [c \in ProcessCalls |-> NoResult]
    /\ cur = NoMsg

QueueInit ==
    /\ started = 0
    /\ msgChan = << >>
    /\ quit = FALSE
    /\ handlerPc = "none"
    /\ callPc = [c \in Calls |-> "start"]
    /\ done = [c \in Calls |-> 0]
    /\ stopPc = [k \in Stoppers |-> "start"]
    /\ pausePc = "start"
    /\ meanwhile = {}
    /\ ProcInit
    /\ CtlInit
    /\ AskInit

\* Start: the first call launches blockHandler
Start ==
    /\ started < MaxStarts
    /\ started' = started + 1
    /\ handlerPc' = IF started + 1 # 1 THEN handlerPc ELSE "select"
    /\ UNCHANGED <<smVars, connVars, pauseVars, restVars, msgChan, quit, callPc, done, stopPc>>

\* QueueBlock, QueueTx: the shutdown flag is read; when it is raised the
\* caller's done channel is signalled and the call returns
QueueCheck(c) ==
    /\ callPc[c] = "start"
    /\ IF shutdown # 0
       THEN /\ done' = [done EXCEPT ![c] = @ + 1]
            /\ callPc' = [callPc EXCEPT ![c] = "returned"]
       ELSE /\ done' = done
            /\ callPc' = [callPc EXCEPT ![c] = "send"]
    /\ UNCHANGED <<smVars, connVars, pauseVars, restVars, started, msgChan, quit, handlerPc, stopPc>>

\* QueueBlock, QueueTx: the message is sent on msgChan
QueueSend(c) ==
    /\ callPc[c] = "send"
    /\ Len(msgChan) < MsgChanCap
    /\ msgChan' = Append(msgChan, c)
    /\ callPc' = [callPc EXCEPT ![c] = "returned"]
    /\ meanwhile' = IF handlerPc = "paused" THEN meanwhile \cup {c} ELSE meanwhile
    /\ UNCHANGED <<smVars, connVars, pausePc, restVars, started, quit, handlerPc, done,
                   stopPc>>

\* Stop: the shutdown counter is raised; every call but the first returns
StopBegin(k) ==
    /\ stopPc[k] = "start"
    /\ shutdown' = shutdown + 1
    /\ stopPc' = [stopPc EXCEPT ![k] = IF shutdown + 1 # 1 THEN "returned" ELSE "quit"]
    /\ UNCHANGED <<rejectedTxns, requestedTxns, requestedBlocks, syncPeer, peerStates,
                   headersFirstMode, headerList, startHeader, nextCheckpoint,
                   checkpoints, regTest, chainBest, out, panicked>>
    /\ UNCHANGED <<connVars, pauseVars, restVars, started, msgChan, quit, handlerPc, callPc, done>>

\* Stop: quit is closed
StopQuit(k) ==
    /\ stopPc[k] = "quit"
    /\ quit' = TRUE
    /\ stopPc' = [stopPc EXCEPT ![k] = "wait"]
    /\ UNCHANGED <<smVars, connVars, pauseVars, restVars, started, msgChan, handlerPc, callPc, done>>

\* Stop: wg.Wait() returns when no blockHandler is running
StopWait(k) ==
    /\ stopPc[k] = "wait"
    /\ handlerPc \in {"none", "exited"}
    /\ stopPc' = [stopPc EXCEPT ![k] = "returned"]
    /\ UNCHANGED <<smVars, connVars, pauseVars, restVars, started, msgChan, quit, handlerPc, callPc, done>>

\* blockHandler takes a message from msgChan, handles it and signals done
HandlerTake ==
    /\ handlerPc = "select"
    /\ msgChan # << >>
    /\ Head(msgChan) # PauseMsg
    /\ LET c == Head(msgChan)
       IN /\ \E pp \in Peers :
               IF CallKind(c) = "block"
               THEN \E blockHash \in RelayedBlocks :
                      LET res == [err |-> "rule", isOrphan |-> FALSE, best |-> chainBest]
                      IN Returned(handleBlockMsg(SM, pp, blockHash, 0, res, TRUE))
               ELSE \E txHash \in Txs :
                      \E t \in handleTxMsg(SM, pp, txHash, TRUE) : Returned(t)
          /\ done' = [done EXCEPT ![c] = @ + 1]
    /\ msgChan' = Tail(msgChan)
    /\ UNCHANGED <<connVars, pauseVars, restVars, started, quit, handlerPc, callPc, stopPc>>

\* blockHandler takes the quit case of its select, and returns
HandlerQuit ==
    /\ handlerPc = "select"
    /\ quit
    /\ handlerPc' = "exited"
    /\ UNCHANGED <<smVars, connVars, pauseVars, restVars, started, msgChan, quit, callPc, done, stopPc>>

\* Pause: a pauseMsg with a new channel is sent on msgChan
PauseSend ==
    /\ pausePc = "start"
    /\ Len(msgChan) < MsgChanCap
    /\ msgChan' = Append(msgChan, PauseMsg)
    /\ pausePc' = "sent"
    /\ UNCHANGED <<smVars, connVars, meanwhile, restVars, started, quit, handlerPc,
                   callPc, done, stopPc>>

\* the caller of Pause closes the channel it was returned
Unpause ==
    /\ pausePc = "sent"
    /\ pausePc' = "closed"
    /\ UNCHANGED <<smVars, queueVars, connVars, meanwhile, restVars>>

\* blockHandler takes the pauseMsg and receives from its channel, outside
\* any select
HandlerPause ==
    /\ handlerPc = "select"
    /\ msgChan # << >>
    /\ Head(msgChan) = PauseMsg
    /\ msgChan' = Tail(msgChan)
    /\ handlerPc' = "paused"
    /\ UNCHANGED <<smVars, connVars, pauseVars, restVars, started, quit, callPc, done, stopPc>>

\* the channel is closed: blockHandler is back in its select
HandlerResume ==
    /\ handlerPc = "paused"
    /\ pausePc = "closed"
    /\ handlerPc' = "select"
    /\ UNCHANGED <<smVars, connVars, pauseVars, restVars, started, msgChan, quit, callPc, done,
                   stopPc>>

QueueNext ==
    \/ Start
    \/ \E c \in Calls : QueueCheck(c)
    \/ \E c \in Calls : QueueSend(c)
    \/ \E k \in Stoppers : StopBegin(k)
    \/ \E k \in Stoppers : StopQuit(k)
    \/ \E k \in Stoppers : StopWait(k)
    \/ HandlerTake
    \/ HandlerQuit

(***************************************************************************)
(* The ConnManager (package connmgr).  A ConnReq is named by its id; the   *)
(* maps pending and conns are the sets of the ids they hold.  Durations    *)
(* are in seconds.                                                         *)
(***************************************************************************)
\* ConnReqs that are made
MaxConnReqs == 2
\* the largest retryCount and failedAttempts that are followed
MaxRetryCount == 4
MaxFailedAttempts == 4
\* the largest Cfg.TargetOutbound
MaxTargetOutbound == 2
\* Cfg.RetryDuration: five seconds, and half of maxRetryDuration
RetryDurations == {5, 1800}

maxFailedAttempts == 3
\* time.Hour
maxRetryDuration == 3600

ConnIds == 1..MaxConnReqs

CM == [pending |-> pending, conns |-> conns, connReqs |-> connReqs,
       failedAttempts |-> failedAttempts, connReqCount |-> connReqCount,
       stop |-> stop, Cfg |-> Cfg, scheduled |-> scheduled]

Nothing == [what |-> "none", after |-> 0, id |-> 0]

ConnAssigned(cm) ==
    /\ pending' = cm.pending
    /\ conns' = cm.conns
    /\ connReqs' = cm.connReqs
    /\ failedAttempts' = cm.failedAttempts
    /\ connReqCount' = cm.connReqCount
    /\ stop' = cm.stop
    /\ Cfg' = cm.Cfg
    /\ scheduled' = cm.scheduled
    /\ UNCHANGED <<smVars, queueVars, pauseVars, restVars>>

ConnReturned(cm) == ConnAssigned(cm) /\ UNCHANGED outVars

NoRequest == [kind |-> "none", id |-> 0]

ConnInit(cfgs) ==
    /\ request = NoRequest
    /\ removed = {}
    /\ failures = << >>
    /\ failuresInARow = 0
    /\ pending = {}
    /\ conns = {}
    /\ connReqs = << >>
    /\ failedAttempts = 0
    /\ connReqCount = 0
    /\ stop = 0
    /\ Cfg \in cfgs
    /\ scheduled = Nothing
    /\ launched = 0
    /\ reqPc = << >>

Cfgs == [GetNewAddress : BOOLEAN, TargetOutbound : 1..MaxTargetOutbound,
         RetryDuration : RetryDurations]

\* a retry delay that grows without the cap of maxRetryDuration
failedConnUncapped(cm, id) ==
    IF cm.stop # 0 THEN cm
    ELSE IF cm.connReqs[id].Permanent
    THEN LET retryCount == cm.connReqs[id].retryCount + 1
         IN [cm EXCEPT !.connReqs[id].retryCount = retryCount,
                       !.scheduled = [what |-> "Connect",
                                      after |-> retryCount * cm.Cfg.RetryDuration,
                                      id |-> id]]
    ELSE IF cm.Cfg.GetNewAddress
    THEN LET n == cm.failedAttempts + 1
         IN [cm EXCEPT !.failedAttempts = n,
                       !.scheduled = [what |-> "NewConnReq",
                                      after |-> IF n >= maxFailedAttempts
                                                THEN cm.Cfg.RetryDuration ELSE 0,
                                      id |-> 0]]
    ELSE cm

\* handleFailedConn: a permanent request is dialled again after a delay that
\* grows with its retryCount; any other is replaced by a new request, at
\* once or, after maxFailedAttempts failures, after the retry duration
handleFailedConn(cm, id) ==
    IF cm.stop # 0 THEN cm
    ELSE IF cm.connReqs[id].Permanent
    THEN LET retryCount == cm.connReqs[id].retryCount + 1
             d == IF retryCount * cm.Cfg.RetryDuration > maxRetryDuration
                  THEN maxRetryDuration
                  ELSE retryCount * cm.Cfg.RetryDuration
         IN [cm EXCEPT !.connReqs[id].retryCount = retryCount,
                       !.scheduled = [what |-> "Connect", after |-> d, id |-> id]]
    ELSE IF cm.Cfg.GetNewAddress
    THEN LET n == cm.failedAttempts + 1
         IN [cm EXCEPT !.failedAttempts = n,
                       !.scheduled = [what |-> "NewConnReq",
                                      after |-> IF n >= maxFailedAttempts
                                                THEN cm.Cfg.RetryDuration ELSE 0,
                                      id |-> 0]]
    ELSE cm

\* NewConnReq, Connect: the request gets the next id, and connHandler takes
\* its registerPending
registerPending(cm0, permanent) ==
    LET cm == [cm0 EXCEPT !.scheduled = Nothing]
        id == cm.connReqCount + 1
    IN [cm EXCEPT !.connReqCount = id,
                  !.connReqs = Append(@, [Permanent |-> permanent,
                                          state |-> "ConnPending",
                                          retryCount |-> 0]),
                  !.pending = @ \cup {id}]

\* a handler that keeps a connected request in pending
connectedKeptPending(cm0, id) ==
    LET cm == [cm0 EXCEPT !.scheduled = Nothing]
    IN IF id \notin cm.pending THEN cm
       ELSE [cm EXCEPT !.connReqs[id].state = "ConnEstablished",
                       !.conns = @ \cup {id}]

\* a handler that leaves failedAttempts as it is when a connection is made
connectedKeepsFailedAttempts(cm0, id) ==
    LET cm == [cm0 EXCEPT !.scheduled = Nothing]
    IN IF id \notin cm.pending THEN cm
       ELSE [cm EXCEPT !.connReqs[id].state = "ConnEstablished",
                       !.connReqs[id].retryCount = 0,
                       !.conns = @ \cup {id},
                       !.pending = @ \ {id}]

handleConnected(cm0, id) ==
    LET cm == [cm0 EXCEPT !.scheduled = Nothing]
    IN IF id \notin cm.pending THEN cm
       ELSE [cm EXCEPT !.connReqs[id].state = "ConnEstablished",
                       !.connReqs[id].retryCount = 0,
                       !.conns = @ \cup {id},
                       !.failedAttempts = 0,
                       !.pending = @ \ {id}]

\* a handler that cancels a pending request without taking it out of pending
disconnectedKeepsPending(cm0, id, retry) ==
    LET cm == [cm0 EXCEPT !.scheduled = Nothing]
    IN IF id \notin cm.conns
       THEN IF id \notin cm.pending THEN cm
            ELSE [cm EXCEPT !.connReqs[id].state = "ConnCanceled"]
       ELSE
         LET cm1 == [cm EXCEPT !.conns = @ \ {id}]
         IN IF ~retry THEN [cm1 EXCEPT !.connReqs[id].state = "ConnDisconnected"]
            ELSE IF \/ Cardinality(cm1.conns) < cm1.Cfg.TargetOutbound
                    \/ cm1.connReqs[id].Permanent
            THEN handleFailedConn([cm1 EXCEPT !.connReqs[id].state = "ConnPending",
                                              !.pending = @ \cup {id}], id)
            ELSE cm1

handleDisconnected(cm0, id, retry) ==
    LET cm == [cm0 EXCEPT !.scheduled = Nothing]
    IN IF id \notin cm.conns
       THEN IF id \notin cm.pending THEN cm
            ELSE [cm EXCEPT !.connReqs[id].state = "ConnCanceled",
                            !.pending = @ \ {id}]
       ELSE
         LET cm1 == [cm EXCEPT !.conns = @ \ {id}]
         IN IF ~retry THEN [cm1 EXCEPT !.connReqs[id].state = "ConnDisconnected"]
            ELSE IF \/ Cardinality(cm1.conns) < cm1.Cfg.TargetOutbound
                    \/ cm1.connReqs[id].Permanent
            THEN handleFailedConn([cm1 EXCEPT !.connReqs[id].state = "ConnPending",
                                              !.pending = @ \cup {id}], id)
            ELSE cm1

handleFailed(cm0, id) ==
    LET cm == [cm0 EXCEPT !.scheduled = Nothing]
    IN IF id \notin cm.pending THEN cm
       ELSE handleFailedConn([cm EXCEPT !.connReqs[id].state = "ConnFailing"], id)

\* the counters that are followed
Followed(cm) ==
    /\ cm.failedAttempts <= MaxFailedAttempts
    /\ \A id \in DOMAIN cm.connReqs : cm.connReqs[id].retryCount <= MaxRetryCount

\* what the callers and the dial results amount to, beside the state of
\* connHandler: Remove was handled for a request that exists; a failure was
\* handled (a dial failure of a request in pending, a disconnect that is
\* retried), or a connection was established
Recorded(kind, id, failed, connected) ==
    /\ request' = IF kind \in {"Disconnect", "Remove"}
                  THEN [kind |-> kind, id |-> id] ELSE NoRequest
    /\ removed' = IF kind = "Remove" /\ id \in DOMAIN connReqs
                  THEN removed \cup {id} ELSE removed
    /\ failures' =
         IF kind = "registerPending" THEN Append(failures, 0)
         ELSE IF connected THEN [failures EXCEPT ![id] = 0]
         ELSE IF failed /\ connReqs[id].Permanent THEN [failures EXCEPT ![id] = @ + 1]
         ELSE failures
    /\ failuresInARow' =
         IF connected THEN 0
         ELSE IF failed /\ ~connReqs[id].Permanent /\ Cfg.GetNewAddress
         THEN failuresInARow + 1
         ELSE failuresInARow

RegisterPendingReq ==
    /\ connReqCount < MaxConnReqs
    /\ \E permanent \in BOOLEAN : ConnReturned(registerPending(CM, permanent))
    /\ Recorded("registerPending", connReqCount + 1, FALSE, FALSE)
    /\ UNCHANGED lifeVars

HandleConnectedReq ==
    \E id \in DOMAIN connReqs :
        /\ ConnReturned(handleConnected(CM, id))
        /\ Recorded("handleConnected", id, FALSE, id \in pending)
        /\ UNCHANGED lifeVars

\* Disconnect(id) and Remove(id) take any id
HandleDisconnectedReq ==
    \E id \in ConnIds : \E retry \in BOOLEAN :
        /\ Followed(handleDisconnected(CM, id, retry))
        /\ ConnReturned(handleDisconnected(CM, id, retry))
        /\ Recorded(IF retry THEN "Disconnect" ELSE "Remove", id,
                    /\ retry /\ stop = 0 /\ id \in conns
                    /\ \/ Cardinality(conns \ {id}) < Cfg.TargetOutbound
                       \/ connReqs[id].Permanent,
                    FALSE)
        /\ UNCHANGED lifeVars

HandleFailedReq ==
    \E id \in DOMAIN connReqs :
        /\ Followed(handleFailed(CM, id))
        /\ ConnReturned(handleFailed(CM, id))
        /\ Recorded("handleFailed", id, stop = 0 /\ id \in pending, FALSE)
        /\ UNCHANGED lifeVars

\* ConnManager.Stop: the requests still being sent may be taken after it
ConnStop ==
    /\ stop = 0
    /\ ConnReturned([CM EXCEPT !.stop = 1, !.scheduled = Nothing])
    /\ Recorded("Stop", 0, FALSE, FALSE)
    /\ UNCHANGED lifeVars

ConnNext ==
    \/ RegisterPendingReq
    \/ HandleConnectedReq
    \/ HandleDisconnectedReq
    \/ HandleFailedReq
    \/ ConnStop

(***************************************************************************)
(* The ConnManager with its callers: Start and Stop, the calls of Connect, *)
(* NewConnReq, Disconnect and Remove, and connHandler taking what they     *)
(* send on the requests channel.  The channel has no buffer: a send and    *)
(* connHandler's receive are one step, which needs connHandler to be in    *)
(* its select and, since closing quit wakes every goroutine parked in a    *)
(* select on it, quit to be open.                                          *)
(***************************************************************************)
\* calls that are made
NumConnCalls == 2
\* Cfg.Listeners, with OnAccept set
MaxListeners == 1

ConnCalls == 1..NumConnCalls

LM == [start |-> start, connQuit |-> connQuit, connHandlers |-> connHandlers,
       connHandlerPc |-> connHandlerPc, listenHandlers |-> listenHandlers,
       spawned |-> spawned, listeners |-> listeners, connCalls |-> connCalls,
       connStopPc |-> connStopPc]

LifeReturned(lm) ==
    /\ start' = lm.start
    /\ connQuit' = lm.connQuit
    /\ connHandlers' = lm.connHandlers
    /\ connHandlerPc' = lm.connHandlerPc
    /\ listenHandlers' = lm.listenHandlers
    /\ spawned' = lm.spawned
    /\ listeners' = lm.listeners
    /\ connCalls' = lm.connCalls
    /\ connStopPc' = lm.connStopPc

\* a call that has not been made yet
NoCall == [pc |-> "start", kind |-> "none", id |-> 0, how |-> "none"]

LifeInit(ls) ==
    /\ start = 0
    /\ connQuit = FALSE
    /\ connHandlers = 0
    /\ connHandlerPc = "none"
    /\ listenHandlers = 0
    /\ spawned = 0
    /\ listeners \in ls
    /\ connCalls = [c \in ConnCalls |-> NoCall]
    /\ connStopPc = [k \in Stoppers |-> "start"]

\* connHandler and the ghosts are left alone
ConnSame ==
    /\ ConnReturned(CM)
    /\ UNCHANGED <<request, removed, failures, failuresInARow>>

\* a Start that launches its goroutines on every call
startUnguarded(lm, cm) ==
    [lm EXCEPT !.start = @ + 1,
               !.connHandlers = @ + 1,
               !.connHandlerPc = "select",
               !.listenHandlers = @ + lm.listeners,
               !.spawned = @ + IF cm.connReqCount < cm.Cfg.TargetOutbound
                               THEN cm.Cfg.TargetOutbound - cm.connReqCount
                               ELSE 0]

\* a Start that launches TargetOutbound NewConnReq whatever connReqCount is
startSpawnsTarget(lm, cm) ==
    IF lm.start + 1 # 1 THEN [lm EXCEPT !.start = @ + 1]
    ELSE [lm EXCEPT !.start = @ + 1,
                    !.connHandlers = @ + 1,
                    !.connHandlerPc = "select",
                    !.listenHandlers = @ + lm.listeners,
                    !.spawned = @ + cm.Cfg.TargetOutbound]

\* a Start whose loop runs up to and including TargetOutbound
startOneMore(lm, cm) ==
    IF lm.start + 1 # 1 THEN [lm EXCEPT !.start = @ + 1]
    ELSE [lm EXCEPT !.start = @ + 1,
                    !.connHandlers = @ + 1,
                    !.connHandlerPc = "select",
                    !.listenHandlers = @ + lm.listeners,
                    !.spawned = @ + IF cm.connReqCount <= cm.Cfg.TargetOutbound
                                    THEN cm.Cfg.TargetOutbound + 1 - cm.connReqCount
                                    ELSE 0]

\* ConnManager.Start: the first call launches connHandler, a listenHandler
\* for each listener, and a NewConnReq for each i from connReqCount up to
\* TargetOutbound
ConnManagerStart(lm, cm) ==
    IF lm.start + 1 # 1 THEN [lm EXCEPT !.start = @ + 1]
    ELSE [lm EXCEPT !.start = @ + 1,
                    !.connHandlers = @ + 1,
                    !.connHandlerPc = "select",
                    !.listenHandlers = @ + lm.listeners,
                    !.spawned = @ + IF cm.connReqCount < cm.Cfg.TargetOutbound
                                    THEN cm.Cfg.TargetOutbound - cm.connReqCount
                                    ELSE 0]

\* a Stop that returns with quit left open
stopLeavesQuit(lm, k) ==
    [lm EXCEPT !.connStopPc[k] = "closed"]

\* ConnManager.Stop, after the stop flag: the listeners are closed, quit is
\* closed, and Stop returns
stopQuit(lm, k) ==
    [lm EXCEPT !.connQuit = TRUE, !.connStopPc[k] = "closed"]

\* Connect, NewConnReq: the ConnReq is given the next id
assignId(cm, permanent) ==
    [cm EXCEPT !.connReqCount = @ + 1,
               !.connReqs = Append(@, [Permanent |-> permanent,
                                       state |-> "ConnPending",
                                       retryCount |-> 0])]

\* connHandler takes the registerPending of a ConnReq that has its id
registerPendingOf(cm0, id) ==
    LET cm == [cm0 EXCEPT !.scheduled = Nothing]
    IN [cm EXCEPT !.connReqs[id].state = "ConnPending",
                  !.pending = @ \cup {id}]

CallKinds == {"Connect", "Reconnect", "NewConnReq", "Disconnect", "Remove"}

\* the call c has been made and is at pc
CallAt(c, pc) == [connCalls EXCEPT ![c].pc = pc]

CallEnded(c, how) == [connCalls EXCEPT ![c].pc = "returned", ![c].how = how]

\* the call c takes the step that the others leave it
CallsReturned(calls) == LifeReturned([LM EXCEPT !.connCalls = calls])

\* Connect(c) for a new persistent ConnReq, Connect(c) for one that has its
\* id (as the retry timer calls it), NewConnReq, Disconnect(id), Remove(id):
\* the stop flag is read, and Connect and NewConnReq take the next id; the
\* calls are numbered as they are made
CallBegin(c) ==
    /\ connCalls[c].pc = "start"
    /\ \A earlier \in 1..(c - 1) : connCalls[earlier].pc # "start"
    /\ \E kind \in CallKinds :
         LET made == [connCalls EXCEPT ![c].kind = kind]
         IN IF stop # 0
            THEN /\ CallsReturned([made EXCEPT ![c].pc = "returned",
                                               ![c].how = "stopped"])
                 /\ ConnSame
            ELSE IF kind = "NewConnReq" /\ ~Cfg.GetNewAddress
            THEN /\ CallsReturned([made EXCEPT ![c].pc = "returned",
                                               ![c].how = "no address source"])
                 /\ ConnSame
            ELSE IF kind \in {"Connect", "NewConnReq"}
            THEN /\ connReqCount < MaxConnReqs
                 /\ ConnReturned(assignId(CM, kind = "Connect"))
                 /\ Recorded("registerPending", connReqCount + 1, FALSE, FALSE)
                 /\ CallsReturned([made EXCEPT ![c].pc = "register",
                                               ![c].id = connReqCount + 1])
            ELSE IF kind = "Reconnect"
            THEN /\ \E id \in DOMAIN connReqs :
                      CallsReturned([made EXCEPT ![c].pc = "dial", ![c].id = id])
                 /\ ConnSame
            ELSE /\ \E id \in ConnIds :
                      CallsReturned([made EXCEPT ![c].pc = "request", ![c].id = id])
                 /\ ConnSame

\* the registerPending of the call is taken by connHandler, which closes done
CallRegister(c) ==
    /\ connCalls[c].pc = "register"
    /\ connHandlerPc = "select" /\ ~connQuit
    /\ ConnReturned(registerPendingOf(CM, connCalls[c].id))
    /\ Recorded("none", connCalls[c].id, FALSE, FALSE)
    /\ CallsReturned(CallAt(c, "dial"))

\* NewConnReq asks for an address and calls Connect, which reads the stop
\* flag; Cfg.Dial succeeds or fails
CallDial(c) ==
    /\ connCalls[c].pc = "dial"
    /\ \E next \in {"connected", "failed", "returned"} :
         /\ next = "returned" => connCalls[c].kind = "NewConnReq" /\ stop # 0
         /\ next = "connected" => connCalls[c].kind # "NewConnReq" \/ stop = 0
         /\ CallsReturned(IF next = "returned" THEN CallEnded(c, "stopped")
                          ELSE CallAt(c, next))
    /\ ConnSame

\* the handleConnected, handleFailed or handleDisconnected of the call is
\* taken by connHandler
CallDeliver(c) ==
    LET id == connCalls[c].id
        pc == connCalls[c].pc
    IN /\ pc \in {"connected", "failed", "request"}
       /\ connHandlerPc = "select" /\ ~connQuit
       /\ IF pc = "connected"
          THEN /\ ConnReturned(handleConnected(CM, id))
               /\ Recorded("handleConnected", id, FALSE, id \in pending)
          ELSE IF pc = "failed"
          THEN /\ Followed(handleFailed(CM, id))
               /\ ConnReturned(handleFailed(CM, id))
               /\ Recorded("handleFailed", id, stop = 0 /\ id \in pending, FALSE)
          ELSE LET retry == connCalls[c].kind = "Disconnect"
               IN /\ Followed(handleDisconnected(CM, id, retry))
                  /\ ConnReturned(handleDisconnected(CM, id, retry))
                  /\ Recorded(connCalls[c].kind, id,
                              /\ retry /\ stop = 0 /\ id \in conns
                              /\ \/ Cardinality(conns \ {id}) < Cfg.TargetOutbound
                                 \/ connReqs[id].Permanent,
                              FALSE)
       /\ CallsReturned(CallEnded(c, "handled"))

\* the call takes the quit case of its select, and returns
CallQuit(c) ==
    /\ connCalls[c].pc \in {"register", "connected", "failed", "request"}
    /\ connQuit
    /\ CallsReturned(CallEnded(c, IF connCalls[c].pc \in {"connected", "failed"}
                                  THEN "dropped" ELSE "quit"))
    /\ ConnSame

ConnStart ==
    /\ start < MaxStarts
    /\ LifeReturned(ConnManagerStart(LM, CM))
    /\ ConnSame

\* ConnManager.Stop: the stop counter is raised; every call but the first
\* returns; the calls are numbered as they are made
ConnStopBegin(k) ==
    /\ connStopPc[k] = "start"
    /\ \A earlier \in 1..(k - 1) : connStopPc[earlier] # "start"
    /\ ConnReturned([CM EXCEPT !.stop = @ + 1])
    /\ UNCHANGED <<request, removed, failures, failuresInARow>>
    /\ LifeReturned([LM EXCEPT !.connStopPc[k] = IF stop + 1 # 1 THEN "returned"
                                                 ELSE "quit"])

\* ConnManager.Stop: the first call closes quit and returns, at "closed"
ConnStopQuit(k) ==
    /\ connStopPc[k] = "quit"
    /\ LifeReturned(stopQuit(LM, k))
    /\ ConnSame

\* connHandler takes the quit case of its select, and returns
ConnHandlerQuit ==
    /\ connHandlerPc = "select"
    /\ connQuit
    /\ LifeReturned([LM EXCEPT !.connHandlerPc = "exited"])
    /\ ConnSame

ConnCallNext ==
    \/ \E c \in ConnCalls : CallBegin(c)
    \/ \E c \in ConnCalls : CallRegister(c)
    \/ \E c \in ConnCalls : CallDial(c)
    \/ \E c \in ConnCalls : CallDeliver(c)
    \/ \E c \in ConnCalls : CallQuit(c)
    \/ ConnStart
    \/ \E k \in Stoppers : ConnStopBegin(k)
    \/ \E k \in Stoppers : ConnStopQuit(k)
    \/ ConnHandlerQuit
    \* SyncManager.Start beside it, as the server starts both
    \/ Start

(***************************************************************************)
(* SyncManager.ProcessBlock against blockHandler.  The caller sends a      *)
(* processBlockMsg with a reply channel of capacity 1 and receives from    *)
(* it; blockHandler calls chain.ProcessBlock and sends on the reply        *)
(* channel: after an error the error, and then, as the case has no return, *)
(* the answer without the error as well.  Peers announce themselves        *)
(* meanwhile: their newPeer messages go through the same channel.          *)
(***************************************************************************)
\* a response that has lost the error
errorDropped(res) == [isOrphan |-> res.isOrphan, err |-> "none"]

\* lines 344-347
errResponse(res) == [isOrphan |-> FALSE, err |-> res.err]

\* lines 350-353
okResponse(res) == [isOrphan |-> res.isOrphan, err |-> "none"]

ProcSame ==
    UNCHANGED <<connVars, pauseVars, ctlVars, askVars, started, quit, callPc, done, stopPc>>

\* ProcessBlock: the message is sent on msgChan
ProcessBlockSend(c) ==
    /\ pbPc[c] = "start"
    /\ \A earlier \in 1..(c - 1) : pbPc[earlier] # "start"
    /\ Len(msgChan) < MsgChanCap
    /\ \E blockHash \in RelayedBlocks :
         msgChan' = Append(msgChan, [kind |-> "processBlock", c |-> c,
                                     block |-> blockHash, peer |-> 0])
    /\ pbPc' = [pbPc EXCEPT ![c] = "sent"]
    /\ ProcSame
    /\ UNCHANGED <<smVars, handlerPc, reply, result, chainRes, cur>>

\* ProcessBlock: the response is received and returned
ProcessBlockReturn(c) ==
    /\ pbPc[c] = "sent"
    /\ reply[c] # << >>
    /\ result' = [result EXCEPT ![c] = Head(reply[c])]
    /\ reply' = [reply EXCEPT ![c] = Tail(@)]
    /\ pbPc' = [pbPc EXCEPT ![c] = "returned"]
    /\ ProcSame
    /\ UNCHANGED <<smVars, msgChan, handlerPc, chainRes, cur>>

\* NewPeer: a peer's newPeerMsg is sent on msgChan
NewPeerSend ==
    /\ Len(msgChan) < MsgChanCap
    /\ \E peer \in Peers \ DOMAIN peerStates :
         /\ \A i \in 1..Len(msgChan) : msgChan[i].peer # peer
         /\ cur.peer # peer
         /\ msgChan' = Append(msgChan, [kind |-> "newPeer", c |-> 0, block |-> 0,
                                        peer |-> peer])
    /\ ProcSame
    /\ UNCHANGED <<smVars, handlerPc, procVars>>

\* blockHandler takes a message from msgChan
HandlerReceive ==
    /\ handlerPc = "select"
    /\ msgChan # << >>
    /\ cur' = Head(msgChan)
    /\ msgChan' = Tail(msgChan)
    /\ handlerPc' = Head(msgChan).kind
    /\ ProcSame
    /\ UNCHANGED <<smVars, pbPc, reply, result, chainRes>>

\* the newPeerMsg case
HandlerNewPeer ==
    /\ handlerPc = "newPeer"
    /\ \E lastBlock \in [DOMAIN peerStates \cup {cur.peer} -> PeerHeights] :
         \E t \in handleNewPeerMsg(SM, cur.peer, TRUE, lastBlock, TRUE) : Returned(t)
    /\ handlerPc' = "select"
    /\ cur' = NoMsg
    /\ ProcSame
    /\ UNCHANGED <<msgChan, pbPc, reply, result, chainRes>>

\* the processBlockMsg case: chain.ProcessBlock is called
HandlerProcessBlock ==
    /\ handlerPc = "processBlock"
    /\ \E res \in ProcessBlockResults(SM, cur.block) :
         /\ Returned(handleProcessBlockMsg(SM, cur.block, res))
         /\ chainRes' = [chainRes EXCEPT ![cur.c] = res]
         /\ handlerPc' = IF res.err # "none" THEN "replyErr" ELSE "reply"
    /\ ProcSame
    /\ UNCHANGED <<msgChan, pbPc, reply, result, cur>>

\* the send inside the error branch
HandlerReplyErr ==
    /\ handlerPc = "replyErr"
    /\ Len(reply[cur.c]) < 1
    /\ reply' = [reply EXCEPT ![cur.c] = Append(@, errResponse(chainRes[cur.c]))]
    /\ handlerPc' = "reply"
    /\ ProcSame
    /\ UNCHANGED <<smVars, msgChan, pbPc, result, chainRes, cur>>

\* the send after it, which waits for room in the reply channel
HandlerReply ==
    /\ handlerPc = "reply"
    /\ Len(reply[cur.c]) < 1
    /\ reply' = [reply EXCEPT ![cur.c] = Append(@, okResponse(chainRes[cur.c]))]
    /\ handlerPc' = "select"
    /\ cur' = NoMsg
    /\ ProcSame
    /\ UNCHANGED <<smVars, msgChan, pbPc, result, chainRes>>

ProcNext ==
    \/ Start
    \/ \E c \in ProcessCalls : ProcessBlockSend(c)
    \/ \E c \in ProcessCalls : ProcessBlockReturn(c)
    \/ NewPeerSend
    \/ HandlerReceive
    \/ HandlerNewPeer
    \/ HandlerProcessBlock
    \/ HandlerReplyErr
    \/ HandlerReply

ProcSpecInit ==
    /\ SyncInit({<< >>}, StartBlocks)
    /\ QueueInit
    /\ ConnInit({[GetNewAddress |-> TRUE, TargetOutbound |-> 1, RetryDuration |-> 5]})
    /\ LifeInit({0})

ProcSpec == ProcSpecInit /\ [][ProcNext]_vars

(***************************************************************************)
(* The calls that wait for blockHandler, against Stop: ProcessBlock,       *)
(* IsCurrent and SyncPeerID send a message with a reply channel on msgChan *)
(* and receive from the reply channel; Pause sends a pauseMsg.  None of    *)
(* them looks at quit or at the shutdown flag.  The reply channels of      *)
(* IsCurrent and SyncPeerID have no buffer: the answer is handed over when *)
(* blockHandler sends and the caller receives.                             *)
(***************************************************************************)
SyncCallSame ==
    UNCHANGED <<connVars, ctlVars, procVars, meanwhile, started, quit, callPc, done, stopPc>>

\* IsCurrent, SyncPeerID: the call is made
AskBegin(c) ==
    /\ askPc[c] = "start"
    /\ \A earlier \in 1..(c - 1) : askPc[earlier] # "start"
    /\ askPc' = [askPc EXCEPT ![c] = "calling"]
    /\ SyncCallSame
    /\ UNCHANGED <<smVars, msgChan, handlerPc, pausePc, answer>>

\* IsCurrent, SyncPeerID: the message is sent on msgChan
AskSend(c) ==
    /\ askPc[c] = "calling"
    /\ Len(msgChan) < MsgChanCap
    /\ msgChan' = Append(msgChan, [kind |-> AskKind(c), c |-> c, block |-> 0, peer |-> 0])
    /\ askPc' = [askPc EXCEPT ![c] = "sent"]
    /\ SyncCallSame
    /\ UNCHANGED <<smVars, handlerPc, pausePc, answer>>

\* the isCurrentMsg and getSyncPeerMsg cases: sm.current(), or the id of the
\* sync peer, 0 when there is none, goes to the caller
HandlerAnswer ==
    /\ handlerPc \in {"isCurrent", "getSyncPeer"}
    /\ askPc[cur.c] = "sent"
    /\ \E isCur \in IsCurrent : \E lbSync \in PeerHeights :
         answer' = [answer EXCEPT ![cur.c] =
                       IF handlerPc = "getSyncPeer" THEN syncPeer
                       ELSE IF current(SM, isCur, lbSync) THEN 1 ELSE 0]
    /\ askPc' = [askPc EXCEPT ![cur.c] = "returned"]
    /\ handlerPc' = "select"
    /\ UNCHANGED <<connVars, ctlVars, pauseVars, started, quit, callPc, done, stopPc>>
    /\ UNCHANGED <<smVars, msgChan, pbPc, reply, result, chainRes, cur>>

\* Pause: the call is made
PauseBegin ==
    /\ pausePc = "start"
    /\ pausePc' = "calling"
    /\ SyncCallSame
    /\ UNCHANGED <<smVars, msgChan, handlerPc, askVars>>

\* Pause: the pauseMsg is sent on msgChan and the channel is returned
PauseCall ==
    /\ pausePc = "calling"
    /\ Len(msgChan) < MsgChanCap
    /\ msgChan' = Append(msgChan, [kind |-> "pause", c |-> 0, block |-> 0, peer |-> 0])
    /\ pausePc' = "sent"
    /\ SyncCallSame
    /\ UNCHANGED <<smVars, handlerPc, askVars>>

\* the pauseMsg case: the channel is closed and blockHandler goes on
HandlerUnpaused ==
    /\ handlerPc = "pause"
    /\ pausePc = "closed"
    /\ handlerPc' = "select"
    /\ SyncCallSame
    /\ UNCHANGED <<smVars, msgChan, pausePc, askVars>>

SyncCallNext ==
    \/ Start
    \/ \E k \in Stoppers : StopBegin(k)
    \/ \E k \in Stoppers : StopQuit(k)
    \/ \E k \in Stoppers : StopWait(k)
    \/ \E c \in ProcessCalls : ProcessBlockSend(c)
    \/ \E c \in ProcessCalls : ProcessBlockReturn(c)
    \/ \E c \in AskCalls : AskBegin(c)
    \/ \E c \in AskCalls : AskSend(c)
    \/ PauseBegin
    \/ PauseCall
    \/ Unpause
    \/ HandlerReceive
    \/ HandlerProcessBlock
    \/ HandlerReplyErr
    \/ HandlerReply
    \/ HandlerAnswer
    \/ HandlerUnpaused
    \/ HandlerQuit

\* every goroutine that can take a step takes one in the end; that a call
\* is made at all, or Stop, is up to the callers
SyncCallFair ==
    /\ WF_vars(Start)
    /\ WF_vars(\E k \in Stoppers : StopQuit(k))
    /\ WF_vars(\E k \in Stoppers : StopWait(k))
    /\ WF_vars(\E c \in ProcessCalls : ProcessBlockReturn(c))
    /\ WF_vars(\E c \in AskCalls : AskSend(c))
    /\ WF_vars(PauseCall)
    /\ WF_vars(Unpause)
    /\ WF_vars(HandlerReceive \/ HandlerQuit)
    /\ WF_vars(HandlerProcessBlock)
    /\ WF_vars(HandlerReplyErr)
    /\ WF_vars(HandlerReply)
    /\ WF_vars(HandlerAnswer)
    /\ WF_vars(HandlerUnpaused)

SyncCallSpecInit ==
    /\ SyncInit({<< >>}, {Genesis})
    /\ QueueInit
    /\ ConnInit({[GetNewAddress |-> TRUE, TargetOutbound |-> 1, RetryDuration |-> 5]})
    /\ LifeInit({0})

SyncCallSpec == SyncCallSpecInit /\ [][SyncCallNext]_vars /\ SyncCallFair

(***************************************************************************)
(* The mining controller (src/cmd/kopach/control/controller.go).  Every    *)
(* call of Run that passes the configuration checks makes a Controller and *)
(* starts walletRPCWatcher, and, when the broadcast channel opens,         *)
(* registers an interrupt handler and starts advertiserAndRebroadcaster.   *)
(* The advertisement and the saved configuration of a tick touch no field  *)
(* of the Controller and are left out.                                     *)
(***************************************************************************)
\* cx.Config: DisableController, RPC listeners and not DisableRPC, P2P
\* listeners and not DisableListen
CtlCfgs == [disabled : BOOLEAN, rpc : BOOLEAN, listen : BOOLEAN]

\* lines 70-117: the Controller Run makes at time t; chanOK is false when
\* transport.NewBroadcastChannel fails
newController(t, chanOK) ==
    [NoCtl EXCEPT !.isMining = TRUE,
                  !.watcher = "trying", !.backoffTime = 1,
                  !.lastTxUpdate = t, !.lastGenerated = t,
                  !.active = chanOK, !.quit = ~chanOK,
                  !.advertiser = IF chanOK THEN "started" ELSE "none"]

\* the goroutines started so far
Watchers(cs) == {i \in Controllers : cs[i].watcher # "none"}

Advertisers(cs) == {i \in Controllers : cs[i].advertiser # "none"}

CtlSame == UNCHANGED <<smVars, queueVars, connVars, pauseVars, procVars, askVars>>

Run ==
    /\ runs < MaxRuns
    /\ runs' = runs + 1
    /\ \E cfg \in CtlCfgs : \E chanOK \in BOOLEAN :
         IF cfg.disabled THEN UNCHANGED <<ctl, cxController>>
         ELSE /\ cxController' = TRUE
              /\ IF ~cfg.rpc \/ ~cfg.listen THEN UNCHANGED ctl
                 ELSE ctl' = [ctl EXCEPT ![runs + 1] = newController(now, chanOK)]
    /\ work' = NoWork
    /\ UNCHANGED <<killAll, nodeKill, interrupted, now, txUpdated>>
    /\ CtlSame

\* lines 104-116: the handlers Run registered next to starting the
\* advertisers shut their controllers down
Interrupt ==
    /\ ~interrupted
    /\ interrupted' = TRUE
    /\ ctl' = [i \in Controllers |->
                  IF i \in Advertisers(ctl)
                  THEN [ctl[i] EXCEPT !.active = FALSE, !.quit = TRUE, !.halt = "done"]
                  ELSE ctl[i]]
    /\ work' = NoWork
    /\ UNCHANGED <<runs, cxController, killAll, nodeKill, now, txUpdated>>
    /\ CtlSame

KillAll ==
    /\ ~killAll
    /\ killAll' = TRUE
    /\ work' = NoWork
    /\ UNCHANGED <<runs, ctl, cxController, nodeKill, interrupted, now, txUpdated>>
    /\ CtlSame

NodeKill ==
    /\ ~nodeKill
    /\ nodeKill' = TRUE
    /\ work' = NoWork
    /\ UNCHANGED <<runs, ctl, cxController, killAll, interrupted, now, txUpdated>>
    /\ CtlSame

\* time passes
ClockTick ==
    /\ now < MaxNow
    /\ now' = now + 1
    /\ work' = NoWork
    /\ UNCHANGED <<runs, ctl, cxController, killAll, nodeKill, interrupted, txUpdated>>
    /\ CtlSame

\* the mempool takes or drops a transaction
MempoolUpdate ==
    /\ txUpdated # now
    /\ txUpdated' = now
    /\ work' = NoWork
    /\ UNCHANGED <<runs, ctl, cxController, killAll, nodeKill, interrupted, now>>
    /\ CtlSame

CtlStep(i, c) ==
    /\ ctl' = [ctl EXCEPT ![i] = c]
    /\ UNCHANGED <<runs, cxController, killAll, nodeKill, interrupted, now, txUpdated>>
    /\ CtlSame

(***************************************************************************)
(* walletRPCWatcher                                                        *)
(***************************************************************************)
\* lines 177-179
nextBackoff(backoffTime) ==
    IF backoffTime <= backoffLimit THEN backoffTime + 1 ELSE backoffTime

\* lines 149-185: KillAll is looked at, then the wallet is dialled
WatcherTry(i) ==
    /\ ctl[i].watcher = "trying"
    /\ work' = NoWork
    /\ IF killAll THEN CtlStep(i, [ctl[i] EXCEPT !.watcher = "exited"])
       ELSE \E connected \in BOOLEAN :
              IF connected
              THEN CtlStep(i, [ctl[i] EXCEPT !.isMining = TRUE, !.backoffTime = 1,
                                             !.watcher = "connected"])
              ELSE CtlStep(i, [ctl[i] EXCEPT !.isMining = FALSE,
                                             !.watcher = "backoff"])

\* lines 170-180: time.After(backoffTime) has fired
WatcherBackoff(i) ==
    /\ ctl[i].watcher = "backoff"
    /\ work' = NoWork
    /\ CtlStep(i, [ctl[i] EXCEPT !.backoffTime = nextBackoff(@),
                                  !.watcher = "trying"])

\* lines 172-174 and 197-199: quit is closed
WatcherQuit(i) ==
    /\ ctl[i].watcher \in {"backoff", "connected"}
    /\ ctl[i].quit
    /\ work' = NoWork
    /\ CtlStep(i, [ctl[i] EXCEPT !.isMining = FALSE, !.watcher = "exited"])

\* lines 192-196: the wallet client is found disconnected
WatcherLost(i) ==
    /\ ctl[i].watcher = "connected"
    /\ work' = NoWork
    /\ CtlStep(i, [ctl[i] EXCEPT !.isMining = FALSE, !.watcher = "trying"])

(***************************************************************************)
(* updateAndSendWork at time t, lastUpdated being what the mempool         *)
(* answers.  The call that would make a new template is commented out:     *)
(* getNew is computed and not used.                                        *)
(***************************************************************************)
isStale(c, t, lastUpdated) ==
    /\ c.lastTxUpdate # lastUpdated
    /\ t > c.lastGenerated + Minute

getNew(c, t, lastUpdated) ==
    \/ ~c.oldBlocks.ok
    \/ Len(c.oldBlocks.shards) = 0
    \/ isStale(c, t, lastUpdated)

updateAndSendWork(c, t, lastUpdated) ==
    LET oB == c.oldBlocks
        c1 == IF oB.ok /\ Len(oB.shards) # 0 /\ isStale(c, t, lastUpdated)
              THEN [c EXCEPT !.lastTxUpdate = t, !.lastGenerated = t]
              ELSE c
    IN [c1 EXCEPT !.oldBlocks = [ok |-> TRUE, shards |-> oB.shards]]

\* what the call did: whether a new template was due, whether one was
\* made, the cached shards and the shards sent
workDone(i, c, t, lastUpdated) ==
    [tick |-> i, halt |-> c.halt,
     i |-> i, getNew |-> getNew(c, t, lastUpdated), regenerated |-> FALSE,
     cached |-> c.oldBlocks, sent |-> c.oldBlocks.shards]

(***************************************************************************)
(* advertiserAndRebroadcaster                                              *)
(***************************************************************************)
\* lines 207-210
AdvertiserBegin(i) ==
    /\ ctl[i].advertiser = "started"
    /\ work' = NoWork
    /\ CtlStep(i, [ctl[i] EXCEPT !.active = TRUE, !.advertiser = "ticking"])

\* lines 218-250: a tick of the ticker; the advertisement is sent on the
\* multicast channel, and the work when the controller is mining
AdvertiserTick(i) ==
    /\ ctl[i].advertiser = "ticking"
    /\ LET c == ctl[i]
           c1 == IF c.isMining /\ ~c.once
                 THEN [c EXCEPT !.once = TRUE, !.active = TRUE]
                 ELSE c
       IN IF c1.isMining
          THEN /\ CtlStep(i, updateAndSendWork(c1, now, txUpdated))
               /\ work' = workDone(i, c1, now, txUpdated)
          ELSE /\ CtlStep(i, c1)
               /\ work' = [NoWork EXCEPT !.tick = i, !.halt = c.halt]

\* lines 251-263: quit is closed, or NodeKill or KillAll
AdvertiserQuit(i) ==
    /\ ctl[i].advertiser = "ticking"
    /\ ctl[i].quit \/ nodeKill \/ killAll
    /\ work' = NoWork
    /\ CtlStep(i, [ctl[i] EXCEPT !.quit = TRUE, !.active = FALSE,
                                  !.advertiser = "exited"])

\* the controllers and their goroutines, Run being called MaxRuns times
CtlNext ==
    \/ Run
    \/ Interrupt
    \/ KillAll
    \/ NodeKill
    \/ \E i \in Controllers : WatcherTry(i)
    \/ \E i \in Controllers : WatcherBackoff(i)
    \/ \E i \in Controllers : WatcherQuit(i)
    \/ \E i \in Controllers : WatcherLost(i)
    \/ \E i \in Controllers : AdvertiserBegin(i)
    \/ \E i \in Controllers : AdvertiserTick(i)
    \/ \E i \in Controllers : AdvertiserQuit(i)

CtlSpecInit ==
    /\ SyncInit({<< >>}, {Genesis})
    /\ QueueInit
    /\ ConnInit({[GetNewAddress |-> TRUE, TargetOutbound |-> 1, RetryDuration |-> 5]})
    /\ LifeInit({0})

CtlSpec == CtlSpecInit /\ [][CtlNext]_vars

\* the first call of Run
FirstRun == runs = 0 /\ Run

\* one controller, time and the mempool
WorkNext ==
    \/ FirstRun
    \/ Interrupt
    \/ KillAll
    \/ NodeKill
    \/ ClockTick
    \/ MempoolUpdate
    \/ \E i \in Controllers : WatcherTry(i)
    \/ \E i \in Controllers : WatcherBackoff(i)
    \/ \E i \in Controllers : WatcherQuit(i)
    \/ \E i \in Controllers : WatcherLost(i)
    \/ \E i \in Controllers : AdvertiserBegin(i)
    \/ \E i \in Controllers : AdvertiserTick(i)
    \/ \E i \in Controllers : AdvertiserQuit(i)

WorkSpec == CtlSpecInit /\ [][WorkNext]_vars

(***************************************************************************)
(* The interrupt handler of Run (lines 104-113) statement by statement,    *)
(* beside the goroutines of its controller.                                *)
(***************************************************************************)
\* the process is interrupted: the handlers registered so far will run
InterruptSignal ==
    /\ ~interrupted
    /\ interrupted' = TRUE
    /\ work' = NoWork
    /\ UNCHANGED <<runs, ctl, cxController, killAll, nodeKill, now, txUpdated>>
    /\ CtlSame

ShutdownStep(i, c) ==
    /\ ctl' = [ctl EXCEPT ![i] = c]
    /\ work' = NoWork
    /\ UNCHANGED <<runs, cxController, killAll, nodeKill, interrupted, now, txUpdated>>
    /\ CtlSame

\* lines 106-108: active is cleared and the pause shards are sent
ShutdownPause(i) ==
    /\ interrupted
    /\ i \in Advertisers(ctl)
    /\ ctl[i].halt = "none"
    /\ ShutdownStep(i, [ctl[i] EXCEPT !.active = FALSE, !.halt = "paused"])

\* lines 109-110: the multicast channel is closed
ShutdownClose(i) ==
    /\ ctl[i].halt = "paused"
    /\ ShutdownStep(i, [ctl[i] EXCEPT !.halt = "closed"])

\* line 111: quit is signalled
ShutdownQuit(i) ==
    /\ ctl[i].halt = "closed"
    /\ ShutdownStep(i, [ctl[i] EXCEPT !.quit = TRUE, !.halt = "done"])

HaltNext ==
    \/ FirstRun
    \/ InterruptSignal
    \/ KillAll
    \/ NodeKill
    \/ \E i \in Controllers : ShutdownPause(i)
    \/ \E i \in Controllers : ShutdownClose(i)
    \/ \E i \in Controllers : ShutdownQuit(i)
    \/ \E i \in Controllers : WatcherTry(i)
    \/ \E i \in Controllers : WatcherBackoff(i)
    \/ \E i \in Controllers : WatcherQuit(i)
    \/ \E i \in Controllers : WatcherLost(i)
    \/ \E i \in Controllers : AdvertiserBegin(i)
    \/ \E i \in Controllers : AdvertiserTick(i)
    \/ \E i \in Controllers : AdvertiserQuit(i)

HaltSpec == CtlSpecInit /\ [][HaltNext]_vars

(***************************************************************************)
(* fetchHeaderBlocks on its own: a header list in headers-first mode, the  *)
(* headers of the main chain from one height to another, startHeader       *)
(* anywhere in it, a chain that has the blocks up to chainBest, and some   *)
(* of the blocks of the list requested from the sync peer already.         *)
(***************************************************************************)
HeaderRun(a, b) == [j \in 1..(b - a + 1) |-> [height |-> a + j - 1, hash |-> a + j - 1]]

FetchInit ==
    /\ checkpoints = <<MainLen>>
    /\ regTest = FALSE
    /\ nextCheckpoint = MainLen
    /\ chainBest \in 0..(MainLen - 1)
    /\ \E a \in Blocks : \E b \in a..MainLen :
          /\ headerList = HeaderRun(a, b)
          /\ startHeader \in {Nil} \cup (a..b)
          /\ requestedBlocks \in SUBSET (a..b)
    /\ syncPeer \in Peers
    /\ peerStates = [p \in Peers |->
                       [syncCandidate |-> TRUE, requestQueue |-> << >>,
                        requestedTxns |-> {},
                        requestedBlocks |-> IF p = syncPeer THEN requestedBlocks ELSE {}]]
    /\ headersFirstMode = TRUE
    /\ rejectedTxns = {}
    /\ requestedTxns = {}
    /\ shutdown = 0
    /\ out = OutNone("init")
    /\ panicked = FALSE

FetchHeaderBlocks == LoopAlone /\ Returned(fetchHeaderBlocks(Begin(SM, "fetch")))

FetchSpecInit ==
    /\ FetchInit
    /\ QueueInit
    /\ ConnInit({[GetNewAddress |-> TRUE, TargetOutbound |-> 1, RetryDuration |-> 5]})
    /\ LifeInit({0})

FetchSpec == FetchSpecInit /\ [][FetchHeaderBlocks]_vars

(***************************************************************************)
(* The dispatch loop serving block synchronisation.                        *)
(***************************************************************************)
\* the chain is configured with no checkpoints or with two
Init ==
    /\ SyncInit({<< >>, <<2, MainLen>>}, StartBlocks)
    /\ QueueInit
    /\ ConnInit({[GetNewAddress |-> TRUE, TargetOutbound |-> 1, RetryDuration |-> 5]})
    /\ LifeInit({0})

Next ==
    \/ NewPeerMsg
    \/ DonePeerMsg
    \/ InvMsg
    \/ HeadersMsg
    \/ BlockMsg
    \/ ProcessBlockMsg

Spec == Init /\ [][Next]_vars

(***************************************************************************)
(* The dispatch loop serving transaction relay.                            *)
(***************************************************************************)
TxNext ==
    \/ NewPeerMsg
    \/ DonePeerMsg
    \/ TxInvMsg
    \/ TxMsg
    \/ BlockMsg

TxSpec == Init /\ [][TxNext]_vars

(***************************************************************************)
(* The dispatch loop downloading headers up to a checkpoint, from peers    *)
(* that may send the header of a block off the main chain.                 *)
(***************************************************************************)
HeaderSpecInit ==
    /\ SyncInit(CheckpointTables \ {<< >>}, {Genesis})
    /\ QueueInit
    /\ ConnInit({[GetNewAddress |-> TRUE, TargetOutbound |-> 1, RetryDuration |-> 5]})
    /\ LifeInit({0})

HeaderNext ==
    \/ NewPeerMsg
    \/ DonePeerMsg
    \/ ForkHeadersMsg
    \/ BlockMsg

HeaderSpec == HeaderSpecInit /\ [][HeaderNext]_vars

(***************************************************************************)
(* blockHandler with the callers of Start, Stop, QueueBlock and QueueTx.   *)
(***************************************************************************)
QueueSpecInit ==
    /\ SyncInit({<< >>}, {Genesis})
    /\ QueueInit
    /\ ConnInit({[GetNewAddress |-> TRUE, TargetOutbound |-> 1, RetryDuration |-> 5]})
    /\ LifeInit({0})

QueueSpec == QueueSpecInit /\ [][QueueNext]_vars

(***************************************************************************)
(* blockHandler with the callers of Start, Stop, QueueBlock, QueueTx and   *)
(* Pause.                                                                  *)
(***************************************************************************)
PauseNext ==
    \/ QueueNext
    \/ PauseSend
    \/ Unpause
    \/ HandlerPause
    \/ HandlerResume

PauseSpec == QueueSpecInit /\ [][PauseNext]_vars

(***************************************************************************)
(* connHandler and the requests it is sent.                                *)
(***************************************************************************)
ConnSpecInit ==
    /\ SyncInit({<< >>}, {Genesis})
    /\ QueueInit
    /\ ConnInit(Cfgs)
    /\ LifeInit({0})

ConnSpec == ConnSpecInit /\ [][ConnNext]_vars

(***************************************************************************)
(* connHandler with the callers of the ConnManager.                        *)
(***************************************************************************)
ConnCallSpecInit ==
    /\ SyncInit({<< >>}, {Genesis})
    /\ QueueInit
    /\ ConnInit([GetNewAddress : BOOLEAN, TargetOutbound : 1..MaxTargetOutbound,
                 RetryDuration : {5}])
    /\ LifeInit(0..MaxListeners)

ConnCallSpec == ConnCallSpecInit /\ [][ConnCallNext]_vars

(***************************************************************************)
(* The ConnManager fed by its address source alone: Start launches the     *)
(* NewConnReq goroutines, handleFailedConn launches one more for each      *)
(* failure it handles (at once or from a timer), and nobody calls Connect. *)
(* Each NewConnReq takes the next id, registers, asks GetNewAddress and    *)
(* goes through Connect, which dials and sends the result to connHandler.  *)
(* Disconnect and Remove are called for any id, at any time.               *)
(***************************************************************************)
\* NewConnReq goroutines that are followed
MaxNewConnReqs == 4

\* the goroutines handleFailedConn has launched, or set a timer for
relaunched(cm) == IF cm.scheduled.what = "NewConnReq" THEN 1 ELSE 0

\* the NewConnReq of id goes to pc
ReqAt(id, pc) == [reqPc EXCEPT ![id] = pc]

\* the ghosts of the other specifications are left alone
OutboundSame == UNCHANGED <<request, removed, failures, failuresInARow>>

\* Start
OutboundStart ==
    /\ start < MaxStarts
    /\ LifeReturned(ConnManagerStart(LM, CM))
    /\ ConnAssigned(CM)
    /\ launched' = launched + (ConnManagerStart(LM, CM).spawned - spawned)
    /\ UNCHANGED reqPc
    /\ OutboundSame

\* NewConnReq begins: it returns if the manager is stopped or has no
\* address source, or else takes the next id
NewConnReqBegin ==
    /\ launched > 0
    /\ launched' = launched - 1
    /\ IF stop # 0 \/ ~Cfg.GetNewAddress
       THEN ConnAssigned(CM) /\ UNCHANGED reqPc
       ELSE /\ connReqCount < MaxNewConnReqs
            /\ ConnAssigned(assignId(CM, FALSE))
            /\ reqPc' = Append(reqPc, "register")
    /\ UNCHANGED lifeVars
    /\ OutboundSame

\* its registerPending is taken by connHandler, which closes done
NewConnReqRegister(id) ==
    /\ reqPc[id] = "register"
    /\ connHandlerPc = "select" /\ ~connQuit
    /\ ConnAssigned(registerPendingOf(CM, id))
    /\ reqPc' = ReqAt(id, "address")
    /\ launched' = launched
    /\ UNCHANGED lifeVars
    /\ OutboundSame

\* GetNewAddress fails, or gives an address and Connect is called: Connect
\* returns if the manager is stopped or the address is that of one of its
\* own listeners, and dials otherwise; Cfg.Dial succeeds or fails
NewConnReqConnect(id) ==
    /\ reqPc[id] = "address"
    /\ \E next \in {"failed", "stopped", "skipped", "connected"} :
         /\ next = "stopped" => stop # 0
         /\ next = "skipped" => stop = 0 /\ listeners > 0
         /\ next = "connected" => stop = 0
         /\ reqPc' = ReqAt(id, next)
    /\ launched' = launched
    /\ ConnAssigned(CM)
    /\ UNCHANGED lifeVars
    /\ OutboundSame

\* the handleConnected or handleFailed of the request is taken by
\* connHandler
NewConnReqDeliver(id) ==
    /\ reqPc[id] \in {"connected", "failed"}
    /\ connHandlerPc = "select" /\ ~connQuit
    /\ LET cm == IF reqPc[id] = "connected" THEN handleConnected(CM, id)
                 ELSE handleFailed(CM, id)
       IN /\ Followed(cm)
          /\ ConnAssigned(cm)
          /\ launched' = launched + relaunched(cm)
    /\ reqPc' = ReqAt(id, "done")
    /\ UNCHANGED lifeVars
    /\ OutboundSame

\* NewConnReq or Connect takes the quit case of its select, and returns
NewConnReqQuit(id) ==
    /\ reqPc[id] \in {"register", "connected", "failed"}
    /\ connQuit
    /\ reqPc' = ReqAt(id, "quit")
    /\ launched' = launched
    /\ ConnAssigned(CM)
    /\ UNCHANGED lifeVars
    /\ OutboundSame

\* Disconnect(id), Remove(id): the handleDisconnected is taken by
\* connHandler
OutboundDisconnect ==
    /\ connHandlerPc = "select" /\ ~connQuit
    /\ \E id \in 1..MaxNewConnReqs : \E retry \in BOOLEAN :
         LET cm == handleDisconnected(CM, id, retry)
         IN /\ Followed(cm)
            /\ ConnAssigned(cm)
            /\ launched' = launched + relaunched(cm)
    /\ UNCHANGED reqPc
    /\ UNCHANGED lifeVars
    /\ OutboundSame

OutboundNext ==
    \/ OutboundStart
    \/ NewConnReqBegin
    \/ \E id \in DOMAIN reqPc : NewConnReqRegister(id)
    \/ \E id \in DOMAIN reqPc : NewConnReqConnect(id)
    \/ \E id \in DOMAIN reqPc : NewConnReqDeliver(id)
    \/ \E id \in DOMAIN reqPc : NewConnReqQuit(id)
    \/ OutboundDisconnect
    \/ \E k \in Stoppers : ConnStopBegin(k)
    \/ \E k \in Stoppers : ConnStopQuit(k)
    \/ ConnHandlerQuit

OutboundSpecInit ==
    /\ SyncInit({<< >>}, {Genesis})
    /\ QueueInit
    /\ ConnInit([GetNewAddress : BOOLEAN, TargetOutbound : 1..MaxTargetOutbound,
                 RetryDuration : {5}])
    /\ LifeInit(0..MaxListeners)

OutboundSpec == OutboundSpecInit /\ [][OutboundNext]_vars

(***************************************************************************)
(* The claims about block synchronisation.                                 *)
(***************************************************************************)
\* C1: every block hash in a peer's requestedBlocks is in the SyncManager's
\* requestedBlocks, whatever startSync and limitMap did to the latter.
C1_PeerRequestedInGlobal ==
    \A p \in DOMAIN peerStates : peerStates[p].requestedBlocks \subseteq requestedBlocks

\* C2: the SyncManager's requestedBlocks never holds more than
\* maxRequestedBlocks hashes, on the inv path and on the headers-first path.
C2_RequestedBlocksCapped == Cardinality(requestedBlocks) <= maxRequestedBlocks

\* C4: a block from a peer in peerStates goes to chain.ProcessBlock exactly
\* when the peer was asked for it or the chain is the regression test chain;
\* otherwise the peer is disconnected and the block is dropped: handling it
\* changes no request map, no header list, no rejectedTxns, nothing at all.
C4_Processed ==
    (out.kind = "block" /\ out.known) =>
        /\ (out.called = 1) <=> (out.requested \/ regTest)
        /\ (out.called = 0) => out.disconnect

C4_Dropped ==
    (out'.kind = "block" /\ out'.known /\ out'.called = 0) =>
        UNCHANGED <<rejectedTxns, requestedTxns, requestedBlocks, syncPeer, peerStates,
                    headersFirstMode, headerList, startHeader, nextCheckpoint,
                    shutdown, checkpoints, regTest, chainBest, panicked>>

C4_UnrequestedBlockDropped == []C4_Processed /\ [][C4_Dropped]_vars

C4_Witness ==
    /\ out.kind = "block" /\ out.known /\ ~out.requested /\ ~regTest
    /\ out.called = 0 /\ out.disconnect
    /\ requestedBlocks # {}

\* C5: when chain.ProcessBlock fails with a rule error the peer is sent a
\* reject and nothing else is done: the block is not treated as an orphan, no
\* getblocks is pushed, rejectedTxns is not cleared and no height is updated,
\* whatever the coinbase height is relative to the best height.
C5_Rejected ==
    (out'.kind = "block" /\ out'.called = 1 /\ out'.err = "rule") =>
        /\ out'.reject
        /\ ~out'.orphan
        /\ ~out'.getblocks
        /\ ~out'.heightUpdated
        /\ rejectedTxns' = rejectedTxns

C5_RuleErrorRejects == [][C5_Rejected]_vars

\* C6: there is at most one sync peer, and a sync peer is a peer of peerStates.
C6_SyncPeerInPeerStates ==
    /\ syncPeer \in Peers \cup {Nil}
    /\ syncPeer # Nil => syncPeer \in DOMAIN peerStates

C6_Witness == syncPeer # Nil /\ DOMAIN peerStates = Peers /\ requestedBlocks # {}

\* C7: in headers-first mode there is a next checkpoint.
C7_HeadersFirstHasCheckpoint == headersFirstMode => nextCheckpoint # Nil

C7_Witness == headersFirstMode /\ nextCheckpoint # Nil /\ Len(headerList) > 1

\* C8: in headers-first mode every hash in requestedBlocks is the hash of a
\* node of headerList.
C8_RequestedAreHeaders ==
    headersFirstMode => requestedBlocks \subseteq ListHashes(headerList)

\* C9: an insertion into a bounded map evicts at most one entry that was there
\* before, so the hash a handler inserts is in the map when the handler ends.
C9_Inserted ==
    \A p \in DOMAIN peerStates \cap DOMAIN peerStates' :
        \A h \in peerStates'[p].requestedBlocks \ peerStates[p].requestedBlocks :
            /\ h \in requestedBlocks'
            /\ Cardinality(requestedBlocks \ requestedBlocks') <= 1

C9_InsertedHashPresent == [][C9_Inserted]_vars

\* C20: when a donePeer message for a known peer P has been handled, P is not
\* in peerStates, no hash P had requested is left in the global maps, and if
\* P was the sync peer, the header state is reset to the best block when
\* headers-first mode was on, P is no longer the sync peer, and there is a
\* new sync peer whenever startSync met an eligible candidate.
C20_Released ==
    \A P \in DOMAIN peerStates \ DOMAIN peerStates' :
        /\ peerStates[P].requestedBlocks \cap requestedBlocks' = {}
        /\ peerStates[P].requestedTxns \cap requestedTxns' = {}
        /\ syncPeer # P => syncPeer' = syncPeer
        /\ syncPeer = P =>
             /\ syncPeer' # P
             /\ headersFirstMode =>
                  /\ headerList' = <<[height |-> BlockHeight(chainBest),
                                      hash |-> chainBest]>>
                  /\ startHeader' = Nil
             /\ ~out'.eligible => syncPeer' = Nil

C20_Selected ==
    \A P \in DOMAIN peerStates \ DOMAIN peerStates' :
        (syncPeer = P /\ out'.eligible) =>
            /\ syncPeer' \in DOMAIN peerStates'
            /\ peerStates'[syncPeer'].syncCandidate

C20_SelectedIfLocator ==
    \A P \in DOMAIN peerStates \ DOMAIN peerStates' :
        (syncPeer = P /\ out'.eligible /\ ~out'.locFailed) =>
            /\ syncPeer' \in DOMAIN peerStates'
            /\ peerStates'[syncPeer'].syncCandidate

C3_ExactlyOneDone ==
    \A c \in Calls :
        /\ done[c] <= 1
        /\ (callPc[c] = "returned" /\ handlerPc = "exited") => done[c] = 1

(***************************************************************************)
(* The claims about the ConnManager.                                       *)
(***************************************************************************)
\* C10: between requests no connection request id is both in pending and in
\* conns.
C10_PendingConnsDisjoint == pending \cap conns = {}

C10_Witness ==
    /\ pending # {}
    /\ conns # {}
    /\ \E id \in pending : connReqs[id].retryCount > 0

\* the smaller of two durations
Min(a, b) == IF a < b THEN a ELSE b

\* C11: the k-th failure in a row of a permanent request, handled before
\* Stop, schedules Connect for it after min(k * RetryDuration,
\* maxRetryDuration): 5, 10, 15, 20 seconds when RetryDuration is 5 seconds.
C11_Backoff ==
    \A id \in DOMAIN connReqs :
        (connReqs[id].Permanent /\ failures'[id] = failures[id] + 1) =>
            /\ scheduled' = [what |-> "Connect", id |-> id,
                             after |-> Min(failures'[id] * Cfg.RetryDuration,
                                           maxRetryDuration)]
            /\ (Cfg.RetryDuration = 5 /\ failures'[id] <= 4) =>
                   scheduled'.after = <<5, 10, 15, 20>>[failures'[id]]

C11_RetryDelay == [][C11_Backoff]_vars

C11_Witness ==
    \E id \in DOMAIN connReqs :
        /\ connReqs[id].Permanent /\ failures[id] = 4 /\ Cfg.RetryDuration = 5
        /\ scheduled = [what |-> "Connect", id |-> id, after |-> 20]
        /\ \E other \in conns : other > id

\* C12: with GetNewAddress set, each handled failure of a request that is
\* not permanent schedules NewConnReq: after RetryDuration when it is at
\* least the maxFailedAttempts-th failure since a connection was last
\* established, at once otherwise.
C12_Replacement ==
    (failuresInARow' = failuresInARow + 1) =>
        scheduled' = [what |-> "NewConnReq", id |-> 0,
                      after |-> IF failuresInARow' >= maxFailedAttempts
                                THEN Cfg.RetryDuration ELSE 0]

C12_DelayedAfterMaxFailed == [][C12_Replacement]_vars

C12_Witness ==
    /\ failuresInARow = maxFailedAttempts
    /\ scheduled = [what |-> "NewConnReq", id |-> 0, after |-> Cfg.RetryDuration]
    /\ \E id \in DOMAIN connReqs : connReqs[id].Permanent /\ failures[id] > 0

\* C13: a request Remove was handled for is neither in pending nor in conns,
\* and its state never becomes ConnEstablished again, whatever dial results
\* are delivered afterwards.
C13_Gone == removed \cap (pending \cup conns) = {}

C13_Stays ==
    \A id \in removed :
        connReqs'[id].state = "ConnEstablished" => connReqs[id].state = "ConnEstablished"

C13_RemovedStaysRemoved == []C13_Gone /\ [][C13_Stays]_vars

C13_Witness ==
    \E id \in removed :
        /\ connReqs[id].Permanent /\ connReqs[id].state = "ConnCanceled"
        /\ failures[id] > 0
        /\ conns # {}

\* C14: when Disconnect(id) is handled before Stop for a permanent request
\* that is in pending or in conns, or for a request in conns when fewer than
\* TargetOutbound connections remain, the request is in pending, in state
\* ConnPending, and Connect is scheduled for it.
C14_Requeued ==
    \A id \in pending \cup conns :
        (/\ request' = [kind |-> "Disconnect", id |-> id]
         /\ stop = 0
         /\ \/ connReqs[id].Permanent
            \/ id \in conns /\ Cardinality(conns \ {id}) < Cfg.TargetOutbound) =>
            /\ id \in pending'
            /\ connReqs'[id].state = "ConnPending"
            /\ scheduled'.what = "Connect" /\ scheduled'.id = id

C14_DisconnectRetries == [][C14_Requeued]_vars

\* C15: a request changes state only along the transitions of the state
\* machine: Pending to Established, Pending to Failing, Failing to Pending,
\* Established to Disconnected, Disconnected to Pending, and to Canceled by
\* Remove; Canceled is left by no transition.
Transitions ==
    {<<"ConnPending", "ConnEstablished">>, <<"ConnPending", "ConnFailing">>,
     <<"ConnFailing", "ConnPending">>, <<"ConnEstablished", "ConnDisconnected">>,
     <<"ConnDisconnected", "ConnPending">>}

C15_Step ==
    \A id \in DOMAIN connReqs :
        connReqs'[id].state # connReqs[id].state =>
            \/ <<connReqs[id].state, connReqs'[id].state>> \in Transitions
            \/ /\ connReqs'[id].state = "ConnCanceled"
               /\ request' = [kind |-> "Remove", id |-> id]

C15_StateMachine == [][C15_Step]_vars

(***************************************************************************)
(* The claims about the ConnManager and its callers.                       *)
(***************************************************************************)
\* a call of ConnManager.Stop has returned: the first, which closed quit, or
\* a later one, which found the stop flag raised
StopReturned == \E k \in Stoppers : connStopPc[k] \in {"closed", "returned"}

FirstStopReturned == \E k \in Stoppers : connStopPc[k] = "closed"

\* a call that is made returns at once
Returns ==
    \A c \in ConnCalls :
        (connCalls[c].pc = "start" /\ connCalls'[c].pc # "start") =>
            connCalls'[c].pc = "returned"

\* the result of a dial is delivered or dropped
DialResult ==
    \E c \in ConnCalls : /\ connCalls[c].pc \in {"connected", "failed"}
                         /\ connCalls'[c].pc = "returned"

\* C16 (as stated): once a call of ConnManager.Stop has returned, no dial
\* result changes pending, conns or the state of a ConnReq (OnConnection is
\* invoked only on the branch that adds the id to conns), and a call of
\* Connect, NewConnReq, Disconnect or Remove that is made returns at once.
C16_AfterAnyStop ==
    [][StopReturned =>
           /\ DialResult => UNCHANGED <<pending, conns, connReqs>>
           /\ Returns]_vars

\* C16 (amended): once the call of ConnManager.Stop that raised the stop
\* flag has returned, no step changes pending, conns or the state of a
\* ConnReq, the results of dials being dropped, and a call of Connect,
\* NewConnReq, Disconnect or Remove that is made returns at once.
C16_Dropped ==
    FirstStopReturned => UNCHANGED <<pending, conns, connReqs>> /\ Returns

C16_AfterStop == [][C16_Dropped]_vars

C16_Witness ==
    /\ FirstStopReturned
    /\ \E c \in ConnCalls :
         /\ connCalls[c].how = "dropped"
         /\ connCalls[c].id \in pending
         /\ connReqs[connCalls[c].id].state = "ConnPending"
    /\ \E c \in ConnCalls : connCalls[c].how = "stopped"

\* the ConnReqs that calls of Connect and NewConnReq have given an id
IdsTaken ==
    Cardinality({c \in ConnCalls : /\ connCalls[c].kind \in {"Connect", "NewConnReq"}
                                   /\ connCalls[c].id # 0})

\* C17 (as stated): with GetNewAddress set, the first Start launches
\* TargetOutbound NewConnReq, whatever calls were made before it.
C17_StartSpawnsTarget ==
    [][(start = 0 /\ start' = 1 /\ Cfg.GetNewAddress) =>
           spawned' = spawned + Cfg.TargetOutbound]_vars

\* C17 (amended): with GetNewAddress set, the first Start launches
\* TargetOutbound NewConnReq less the ConnReqs that Connect and NewConnReq
\* calls made before it have given an id, and none when there are that many.
C17_StartSpawnsRemaining ==
    [][(start = 0 /\ start' = 1 /\ Cfg.GetNewAddress) =>
           spawned' = spawned + IF IdsTaken < Cfg.TargetOutbound
                                THEN Cfg.TargetOutbound - IdsTaken ELSE 0]_vars

C17_Witness ==
    /\ start = 1
    /\ Cfg.GetNewAddress /\ Cfg.TargetOutbound = 2
    /\ spawned = 1
    /\ \E c \in ConnCalls :
         /\ connCalls[c].kind = "Connect" /\ connCalls[c].id = 1
         /\ connReqs[1].state = "ConnEstablished"

\* C18: a call of Start after the first changes nothing but the counter of
\* the calls, on the ConnManager (no connHandler, listenHandler or NewConnReq
\* is launched) and on the SyncManager (no blockHandler is launched).
C18_SecondStart ==
    /\ (start >= 1 /\ start' # start) =>
           UNCHANGED <<smVars, queueVars, pending, conns, connReqs, failedAttempts,
                       connReqCount, stop, Cfg, connQuit, connHandlers,
                       connHandlerPc, listenHandlers, spawned, listeners,
                       connCalls, connStopPc>>
    /\ (started >= 1 /\ started' # started) =>
           UNCHANGED <<smVars, connVars, msgChan, quit, handlerPc, callPc, done,
                       stopPc>>

C18_StartTwice == [][C18_SecondStart]_vars

C18_Witness ==
    /\ start = 2 /\ started = 2
    /\ connHandlers = 1 /\ handlerPc = "select"
    /\ listeners = 1 /\ listenHandlers = 1
    /\ spawned = Cfg.TargetOutbound

(***************************************************************************)
(* The claims about Pause.                                                 *)
(***************************************************************************)
\* the fields of the SyncManager that blockHandler owns, and what it did
\* with the last message it handled
handlerState ==
    <<rejectedTxns, requestedTxns, requestedBlocks, syncPeer, peerStates,
      headersFirstMode, headerList, startHeader, nextCheckpoint, out, panicked>>

\* C19: from the step that takes the pauseMsg until its channel is closed,
\* blockHandler handles no message and the state it owns does not change,
\* and closing the channel leaves that state as it was; messages are taken
\* from msgChan in the order they were sent; and no message sent while
\* blockHandler was paused is lost: when blockHandler has returned each has
\* been handled.
C19_Paused ==
    handlerPc = "paused" =>
        /\ UNCHANGED handlerState
        /\ msgChan' = msgChan \/ \E c \in Calls : msgChan' = Append(msgChan, c)

C19_InOrder ==
    msgChan' # msgChan =>
        \/ \E c \in Calls \cup {PauseMsg} : msgChan' = Append(msgChan, c)
        \/ /\ handlerPc = "select"
           /\ msgChan # << >>
           /\ msgChan' = Tail(msgChan)
           /\ Head(msgChan) \in Calls => done'[Head(msgChan)] = done[Head(msgChan)] + 1

C19_NoneLost ==
    \A c \in meanwhile : handlerPc = "exited" => done[c] >= 1

C19_PauseKeepsMessages == []C19_NoneLost /\ [][C19_Paused /\ C19_InOrder]_vars


(***************************************************************************)
(* The claims about the choice of a sync peer and the start of a sync.     *)
(***************************************************************************)
\* headersFirstMode when startSync is entered: handleDonePeerMsg has reset
\* the header state by then, handleNewPeerMsg has left it alone
ModeAtStartSync == IF out'.kind = "donePeer" THEN FALSE ELSE headersFirstMode

\* startSync has selected a sync peer in this step
SyncPeerSelected ==
    /\ out'.kind \in {"newPeer", "donePeer"}
    /\ syncPeer' # Nil
    /\ syncPeer' # syncPeer

\* C21: when startSync selects a sync peer, the global requestedBlocks is
\* emptied, and if there is a next checkpoint above the best height and the
\* chain is not the regression test chain, headersFirstMode becomes true and
\* a getheaders is sent; otherwise headersFirstMode stays as it was and a
\* getblocks is sent.
C21_Started ==
    SyncPeerSelected =>
        /\ requestedBlocks' = {}
        /\ IF /\ nextCheckpoint # Nil
              /\ BlockHeight(chainBest) < Checkpoint(nextCheckpoint).Height
              /\ ~regTest
           THEN headersFirstMode' /\ out'.getheaders /\ ~out'.getblocks
           ELSE /\ headersFirstMode' = ModeAtStartSync
                /\ out'.getblocks /\ ~out'.getheaders

C21_WitnessBlocks ==
    /\ out.kind = "donePeer" /\ out.getblocks /\ ~headersFirstMode
    /\ syncPeer # Nil /\ nextCheckpoint # Nil

\* the sync peers handleNewPeerMsg can end with, from this state and with
\* these answers of the new peer, of the other peers and of the chain
NewPeerChoices(peer, isLocal, lastBlock, locOK) ==
    {t.syncPeer : t \in handleNewPeerMsg(SM, peer, isLocal, lastBlock, locOK)}

\* the peer startSync selects is a sync candidate that is not behind
C22_Candidate ==
    \A peer \in Peers \ DOMAIN peerStates : \A isLocal, locOK \in BOOLEAN :
        \A lastBlock \in [DOMAIN peerStates \cup {peer} -> PeerHeights] :
            \A t \in handleNewPeerMsg(SM, peer, isLocal, lastBlock, locOK) :
                t.syncPeer # syncPeer =>
                    /\ t.syncPeer \in DOMAIN t.peerStates
                    /\ t.peerStates[t.syncPeer].syncCandidate
                    /\ lastBlock[t.syncPeer] >= BlockHeight(chainBest)

\* two runs of the handler from one state with the same answers end with
\* the same sync peer
C22_SameChoice ==
    \A peer \in Peers \ DOMAIN peerStates : \A isLocal, locOK \in BOOLEAN :
        \A lastBlock \in [DOMAIN peerStates \cup {peer} -> PeerHeights] :
            Cardinality(NewPeerChoices(peer, isLocal, lastBlock, locOK)) <= 1

\* C22: the sync peer startSync selects is a function of the state and of
\* the candidates (two executions from the same state select the same
\* peer), and it is a sync candidate whose LastBlock is not below the best
\* height.
C22_DeterministicChoice == C22_SameChoice /\ C22_Candidate


(***************************************************************************)
(* The claims about the download of headers and of the blocks they name.   *)
(***************************************************************************)
\* the loop over the headers of a message gets as far as header i, and
\* header i does not follow the tail of headerList, or has the height of the
\* next checkpoint and another hash
RefusedAt(headers, i) ==
    LET tail == headerList[Len(headerList)]
        prev(j) == IF j = 1 THEN tail.hash ELSE headers[j - 1]
        follows(j) == PrevBlock(headers[j]) = prev(j)
        atCheckpoint(j) == tail.height + j = Checkpoint(nextCheckpoint).Height
    IN /\ \A j \in 1..(i - 1) : follows(j) /\ ~atCheckpoint(j)
       /\ \/ ~follows(i)
          \/ atCheckpoint(i) /\ headers[i] # Checkpoint(nextCheckpoint).Hash

C23_Refused ==
    (headersFirstMode /\ headerList # << >> /\ nextCheckpoint # Nil) =>
        \A peer \in DOMAIN peerStates : \A headers \in ForkHeaderLists :
            (\E i \in 1..Len(headers) : RefusedAt(headers, i)) =>
                LET t == handleHeadersMsg(SM, peer, headers)
                IN /\ t.out.disconnect
                   /\ t.nextCheckpoint = nextCheckpoint
                   /\ t.out.getdata = 0
                   /\ ~t.out.getheaders
                   /\ t.requestedBlocks = requestedBlocks
                   /\ \A p \in DOMAIN peerStates :
                        t.peerStates[p].requestedBlocks = peerStates[p].requestedBlocks

C23_Disconnected ==
    (out'.kind = "headers" /\ out'.disconnect /\ headersFirstMode) =>
        /\ nextCheckpoint' = nextCheckpoint
        /\ out'.getdata = 0
        /\ ~out'.getheaders
        /\ UNCHANGED <<requestedBlocks, requestedTxns, syncPeer, headersFirstMode>>

C24_Checkpoint ==
    (/\ out'.kind = "block" /\ out'.checkpoint
     /\ out'.called = 1 /\ out'.err = "none" /\ ~out'.orphan) =>
        LET later == findNextHeaderCheckpoint(checkpoints,
                                              Checkpoint(nextCheckpoint).Height)
        IN IF later # Nil
           THEN /\ headerList' = headerList
                /\ nextCheckpoint' = later
                /\ headersFirstMode'
                /\ out'.getheaders /\ ~out'.getblocks
           ELSE /\ headerList' = << >>
                /\ nextCheckpoint' = Nil
                /\ ~headersFirstMode'
                /\ out'.getblocks /\ ~out'.getheaders

\* a block that is the head of headerList and not the next checkpoint
C24_Head ==
    (out'.kind = "block" /\ out'.head /\ ~out'.checkpoint) =>
        /\ headerList # << >>
        /\ headerList' = Tail(headerList)

\* C24: in headers-first mode the block that is the next checkpoint, coming
\* as the head of headerList and accepted, keeps its entry in headerList;
\* with a later checkpoint nextCheckpoint moves on to it, headersFirstMode
\* stays true and a getheaders is sent; with none headersFirstMode becomes
\* false, headerList is emptied and a getblocks is sent.  Every other block
\* that is the head of headerList loses its entry.
C24_CheckpointBlock == [][C24_Checkpoint /\ C24_Head]_vars

C24_Witness ==
    /\ out.kind = "block" /\ out.checkpoint /\ out.err = "none" /\ ~out.orphan
    /\ out.getheaders /\ headersFirstMode
    /\ nextCheckpoint = MainLen
    /\ headerList # << >> /\ headerList[1].hash = 2

C24_WitnessLast ==
    /\ out.kind = "block" /\ out.checkpoint /\ out.err = "none" /\ ~out.orphan
    /\ out.getblocks /\ ~headersFirstMode
    /\ headerList = << >> /\ chainBest = MainLen


(***************************************************************************)
(* The claims about inv messages in headers-first mode.                    *)
(***************************************************************************)
\* the request maps of the SyncManager and of every peer
RequestMaps(s) ==
    <<s.requestedBlocks, s.requestedTxns,
      [p \in DOMAIN s.peerStates |->
          <<s.peerStates[p].requestedBlocks, s.peerStates[p].requestedTxns>>]>>

\* an inv message of blocks, of transactions or of both, whatever the chain
\* and the mempool know of them (the sync peer's height is read only when
\* the chain says it is current, the mempool only for a transaction)
C25_AnyInv ==
    headersFirstMode =>
        \A peer \in DOMAIN peerStates : \A invVects \in InvLists :
            \A isCur \in IsCurrent :
                \A lbSync \in (IF isCur THEN PeerHeights ELSE {0}) :
                    \A haveTxs \in (IF \E i \in 1..Len(invVects) : invVects[i].Type = "tx"
                                    THEN SUBSET Txs ELSE {{}}) :
                        \A t \in handleInvMsg(SM, peer, invVects, isCur, lbSync, haveTxs) :
                            /\ t.out.getdata = 0
                            /\ RequestMaps(t) = RequestMaps(SM)

C25_Step ==
    (out'.kind = "inv" /\ out'.headersFirst) =>
        /\ out'.getdata = 0
        /\ UNCHANGED <<requestedBlocks, requestedTxns>>
        /\ \A p \in DOMAIN peerStates :
             /\ peerStates'[p].requestedBlocks = peerStates[p].requestedBlocks
             /\ peerStates'[p].requestedTxns = peerStates[p].requestedTxns

\* between two messages the request queue of every peer is empty: an inv
\* message queues at most MaxInvPerMsg entries and the second loop stops
\* before the end of the queue only after that many requests
C25_QueueDrained ==
    \A p \in DOMAIN peerStates : peerStates[p].requestQueue = << >>

\* C25: while headersFirstMode is true, handling an inv message from any
\* peer sends no getdata and adds no hash to the global or to a peer's
\* requestedBlocks and requestedTxns, with the request queue as any earlier
\* message can have left it.
C25_NoRequestsInHeadersFirst == []C25_AnyInv /\ []C25_QueueDrained /\ [][C25_Step]_vars

C25_Witness ==
    /\ out.kind = "inv" /\ out.headersFirst /\ out.known
    /\ headersFirstMode /\ syncPeer # Nil
    /\ Len(headerList) > 1


(***************************************************************************)
(* The claims about rejected transactions.                                 *)
(***************************************************************************)
\* a transaction that is in rejectedTxns arrives: nothing is done
C26_Ignored ==
    \A peer \in DOMAIN peerStates : \A txHash \in rejectedTxns :
        \A accepted \in BOOLEAN :
            \A t \in handleTxMsg(SM, peer, txHash, accepted) :
                /\ t.out.called = 0 /\ ~t.out.reject
                /\ [t EXCEPT !.out = out] = SM

\* an inv message announces transactions: none that is in rejectedTxns is
\* requested or left on the request queue
C26_NotQueued ==
    \A peer \in DOMAIN peerStates : \A invVects \in TxInvLists :
        \A isCur \in IsCurrent : \A lbSync \in PeerHeights : \A haveTxs \in SUBSET Txs :
            \A t \in handleInvMsg(SM, peer, invVects, isCur, lbSync, haveTxs) :
                /\ (t.requestedTxns \ requestedTxns) \cap rejectedTxns = {}
                /\ (t.peerStates[peer].requestedTxns \ peerStates[peer].requestedTxns)
                       \cap rejectedTxns = {}
                /\ \A i \in 1..Len(t.peerStates[peer].requestQueue) :
                      t.peerStates[peer].requestQueue[i].Hash \notin rejectedTxns

\* a transaction arrives that the mempool refuses: it is in rejectedTxns
\* afterwards and a reject was pushed
C26_Refused ==
    \A peer \in DOMAIN peerStates : \A txHash \in Txs \ rejectedTxns :
        \A t \in handleTxMsg(SM, peer, txHash, FALSE) :
            /\ t.out.called = 1 /\ t.out.reject
            /\ txHash \in t.rejectedTxns

\* rejectedTxns is emptied by the blocks of peers that the chain accepts
\* and that are no orphans, and by nothing else
C26_Emptied ==
    /\ (rejectedTxns # {} /\ rejectedTxns' = {}) =>
          /\ out'.kind = "block" /\ out'.called = 1
          /\ out'.err = "none" /\ ~out'.orphan
    /\ (/\ out'.kind = "block" /\ out'.called = 1
        /\ out'.err = "none" /\ ~out'.orphan) => rejectedTxns' = {}

\* the claim without the sentence about the transaction the mempool refuses
C26_IgnoredAndEmptied == []C26_Ignored /\ []C26_NotQueued /\ [][C26_Emptied]_vars

\* C26: a transaction whose hash is in rejectedTxns is ignored when it
\* arrives (no mempool call, no reject) and is not queued for a request by
\* an inv; a transaction the mempool refuses is added to rejectedTxns and a
\* reject is pushed; rejectedTxns is emptied exactly when a block from a
\* peer is processed successfully as a non-orphan.
C26_RejectedTxns ==
    []C26_Ignored /\ []C26_NotQueued /\ []C26_Refused /\ [][C26_Emptied]_vars

\* the cases of the claim are met: a refused transaction in rejectedTxns,
\* and rejectedTxns emptied by a block
C26_ReachedRefused == out.kind = "tx" /\ out.reject /\ rejectedTxns # {}

C26_ReachedEmptied ==
    /\ out.kind = "block" /\ out.called = 1 /\ out.err = "none" /\ ~out.orphan
    /\ rejectedTxns = {} /\ requestedTxns # {}


(***************************************************************************)
(* The claim about SyncManager.ProcessBlock.                               *)
(***************************************************************************)
\* what the call returns is what chain.ProcessBlock answered
C27_Returned ==
    \A c \in ProcessCalls :
        pbPc[c] = "returned" =>
            /\ chainRes[c] # NoResult
            /\ result[c] = IF chainRes[c].err # "none"
                           THEN [isOrphan |-> FALSE, err |-> chainRes[c].err]
                           ELSE [isOrphan |-> chainRes[c].isOrphan, err |-> "none"]

\* the chain is called and its best block moved by blockHandler alone, while
\* it handles the message of the call and the caller waits
C27_InLoop ==
    /\ \A c \in ProcessCalls :
         chainRes'[c] # chainRes[c] =>
             /\ handlerPc = "processBlock" /\ cur.c = c
             /\ pbPc[c] = "sent" /\ chainRes[c] = NoResult
    /\ chainBest' # chainBest => handlerPc = "processBlock"
    /\ peerStates' # peerStates => handlerPc = "newPeer"

\* C27: SyncManager.ProcessBlock returns (false, e) when chain.ProcessBlock
\* fails with e and (isOrphan, nil) otherwise, and the chain is called by
\* the dispatch loop while it handles this message and no other.
C27_ProcessBlockResult == []C27_Returned /\ [][C27_InLoop]_vars

\* a call returned the error while the second response is in the channel
\* and blockHandler is handling the newPeerMsg of a peer
C27_Witness ==
    \E c \in ProcessCalls :
        /\ pbPc[c] = "returned" /\ result[c].err = "rule"
        /\ reply[c] # << >>
        /\ handlerPc = "newPeer"

(***************************************************************************)
(* C28                                                                     *)
(***************************************************************************)
\* a call of Run made while some controller is active
C28_SecondRun ==
    /\ runs' = runs + 1
    /\ \E j \in Controllers : ctl[j].active

\* every wallet watcher and every advertiser belongs to a Controller of its
\* own, made by the call of Run that started it: one watcher per call that
\* passes the configuration, one advertiser per broadcast channel opened
C28_OnePerRun ==
    /\ Watchers(ctl) \subseteq 1..runs
    /\ Advertisers(ctl) \subseteq Watchers(ctl)

\* C28: Run is idempotent: a call of Run while a controller is active
\* starts no further wallet watcher and no further advertiser.
C28_RunIdempotent ==
    [][C28_SecondRun =>
          /\ Watchers(ctl') = Watchers(ctl)
          /\ Advertisers(ctl') = Advertisers(ctl)]_vars

\* two controllers are active, each with both goroutines running
C28_TwoControllers ==
    \A i \in Controllers :
        /\ ctl[i].active
        /\ ctl[i].watcher \notin {"none", "exited"}
        /\ ctl[i].advertiser = "ticking"

(***************************************************************************)
(* C29                                                                     *)
(***************************************************************************)
C29_AtMostFive ==
    \A i \in Controllers : ctl[i].backoffTime <= backoffLimit

\* the watcher starts, has waited after a failed attempt, has connected
C29_Step ==
    \A i \in Controllers :
        /\ ctl[i].watcher = "none" /\ ctl'[i].watcher # "none"
               => ctl'[i].backoffTime = 1
        /\ ctl[i].watcher = "backoff" /\ ctl'[i].watcher = "trying"
               => ctl'[i].backoffTime =
                      IF ctl[i].backoffTime < backoffLimit
                      THEN ctl[i].backoffTime + 1 ELSE backoffLimit
        /\ ctl[i].watcher = "trying" /\ ctl'[i].watcher = "connected"
               => ctl'[i].backoffTime = 1

\* C29: backoffTime starts at 1 second, grows by 1 second with each failed
\* attempt, never exceeds 5 seconds, and is 1 second again after a
\* connection.
C29_Backoff == []C29_AtMostFive /\ [][C29_Step]_vars

\* what the watcher does: the same with 6 seconds as the largest wait
C29_StepUpToSix ==
    \A i \in Controllers :
        /\ ctl[i].watcher = "none" /\ ctl'[i].watcher # "none"
               => ctl'[i].backoffTime = 1
        /\ ctl[i].watcher = "backoff" /\ ctl'[i].watcher = "trying"
               => ctl'[i].backoffTime =
                      IF ctl[i].backoffTime <= backoffLimit
                      THEN ctl[i].backoffTime + 1 ELSE backoffLimit + 1
        /\ ctl[i].watcher = "trying" /\ ctl'[i].watcher = "connected"
               => ctl'[i].backoffTime = 1

C29_AtMostSix ==
    \A i \in Controllers : ctl[i].backoffTime <= backoffLimit + 1

C29_BackoffUpToSix == []C29_AtMostSix /\ [][C29_StepUpToSix]_vars

\* a watcher waits 6 seconds
C29_WaitsSix ==
    \E i \in Controllers :
        ctl[i].watcher = "backoff" /\ ctl[i].backoffTime = backoffLimit + 1

(***************************************************************************)
(* C30                                                                     *)
(***************************************************************************)
\* a new template is made and sent when one is due
C30_FreshWhenDue ==
    work.i # 0 /\ work.getNew => work.regenerated

\* the stored shards are sent again when none is due
C30_ResentOtherwise ==
    work.i # 0 /\ ~work.getNew =>
        ~work.regenerated /\ work.cached.ok /\ work.sent = work.cached.shards

\* oldBlocks holds what was sent
C30_StoredWhatWasSent ==
    work.i # 0 => ctl[work.i].oldBlocks = [ok |-> TRUE, shards |-> work.sent]

\* C30: updateAndSendWork sends a newly made shard set when nothing is
\* cached, the cached set is empty, or the mempool's timestamp differs from
\* lastTxUpdate and more than a minute has passed since lastGenerated, and
\* sends the stored set again otherwise; oldBlocks then holds what was sent.
C30_UpdateAndSendWork ==
    /\ C30_FreshWhenDue
    /\ C30_ResentOtherwise
    /\ C30_StoredWhatWasSent

\* what updateAndSendWork does: nothing is made, the cached shards are sent,
\* none when nothing was cached, and stored
C30_AlwaysResent ==
    work.i # 0 =>
        /\ ~work.regenerated
        /\ work.sent = work.cached.shards
        /\ ctl[work.i].oldBlocks = [ok |-> TRUE, shards |-> work.sent]

\* updateAndSendWork has run without a cached set, and with an empty one
C30_CalledUncached ==
    work.i # 0 /\ ~work.cached.ok

C30_CalledEmpty ==
    work.i # 0 /\ work.cached.ok /\ work.cached.shards = << >>

\* the cached set is never anything but empty
C30_NothingCached ==
    \A i \in Controllers : ctl[i].oldBlocks.shards = << >>

(***************************************************************************)
(* C31                                                                     *)
(***************************************************************************)
\* the handler sends the pause shards, then closes the channel, then
\* signals quit
C31_Order ==
    \A i \in Controllers :
        /\ ctl'[i].halt # ctl[i].halt =>
               <<ctl[i].halt, ctl'[i].halt>> \in
                   {<<"none", "paused">>, <<"paused", "closed">>, <<"closed", "done">>}
        /\ ctl[i].advertiser # "none" /\ ctl'[i].halt # "done"
              /\ ~ctl[i].quit /\ ctl'[i].quit =>
               ctl[i].advertiser = "ticking" /\ ctl'[i].advertiser = "exited"

\* no advertiser sends once the pause shards of its controller are sent
C31_NoLateTick ==
    work.tick # 0 => work.halt = "none"

\* C31: on interrupt the controller sends the pause shards, closes the
\* multicast channel and signals quit, in this order, and the advertiser
\* sends no advertisement and no work after the pause shards were sent or
\* the channel was closed.
C31_PauseIsLast == []C31_NoLateTick /\ [][C31_Order]_vars

C31_HandlerOrder == [][C31_Order]_vars

\* the advertiser has sent between the pause and the close, after the close,
\* and after quit was signalled
C31_SentAfterPause == work.tick # 0 /\ work.halt = "paused"

C31_SentAfterClose == work.tick # 0 /\ work.halt = "closed"

C31_SentAfterQuit == work.tick # 0 /\ work.halt = "done"

(***************************************************************************)
(* C32                                                                     *)
(***************************************************************************)
\* the watcher of controller i has a wallet connection
C32_Connected(i) == ctl[i].watcher = "connected"

\* isMining is false while there is no wallet connection
C32_Paused ==
    \A i \in Watchers(ctl) : ~C32_Connected(i) => ~ctl[i].isMining

\* no tick calls updateAndSendWork while there is no wallet connection
C32_NoWork ==
    work.i # 0 => C32_Connected(work.i)

\* the watcher leaves on quit, from its wait or from its connection, with
\* isMining false
C32_Exit ==
    \A i \in Controllers :
        /\ ctl[i].quit
        /\ ctl[i].watcher \in {"backoff", "connected"}
        /\ ctl'[i].watcher = "exited"
        => ~ctl'[i].isMining

\* C32: isMining is false whenever the controller has no live wallet
\* connection, so that no tick calls updateAndSendWork then, and the watcher
\* leaves on quit with isMining false.
C32_PausedWithoutWallet == []C32_Paused /\ []C32_NoWork /\ [][C32_Exit]_vars

\* what holds: isMining without a connection only until the first attempt
\* of the watcher has ended
C32_PausedAfterFirstAttempt ==
    \A i \in Watchers(ctl) :
        ~C32_Connected(i) /\ ctl[i].isMining =>
            ctl[i].watcher \in {"trying", "exited"} /\ ctl[i].backoffTime = 1

C32_ExitOnQuit == [][C32_Exit]_vars

\* work was sent before the watcher had connected
C32_WorkBeforeConnection ==
    work.i # 0 /\ ctl[work.i].watcher = "trying"

\* a watcher has left on quit
C32_LeftOnQuit ==
    \E i \in Controllers : ctl[i].quit /\ ctl[i].watcher = "exited"

(***************************************************************************)
(* C33                                                                     *)
(***************************************************************************)
\* where startHeader is in headerList
C33_Start == CHOOSE k \in 1..Len(headerList) : headerList[k].hash = startHeader

\* the nodes from startHeader on that the chain lacks
C33_Lacking ==
    {j \in C33_Start..Len(headerList) : headerList[j].hash \notin Ancestors(chainBest)}

\* the first MaxInvPerMsg of them
C33_Asked ==
    {j \in C33_Lacking : Cardinality({i \in C33_Lacking : i < j}) < MaxInvPerMsg}

\* the last node examined
C33_Last ==
    IF Cardinality(C33_Lacking) >= MaxInvPerMsg
    THEN CHOOSE j \in C33_Asked : \A i \in C33_Asked : i <= j
    ELSE Len(headerList)

C33_Hashes == {headerList[j].hash : j \in C33_Asked}

C33_Fetch ==
    startHeader # Nil /\ out'.kind = "fetch" =>
        /\ startHeader \in ListHashes(headerList)
        /\ out'.getdata = Cardinality(C33_Asked)
        /\ out'.getdata <= MaxInvPerMsg
        /\ requestedBlocks' = requestedBlocks \cup C33_Hashes
        /\ peerStates' = [peerStates EXCEPT ![syncPeer].requestedBlocks = @ \cup C33_Hashes]
        /\ \A h \in C33_Hashes : h \notin Ancestors(chainBest)
        /\ startHeader' = IF C33_Last < Len(headerList)
                           THEN headerList[C33_Last + 1].hash ELSE Nil
        /\ UNCHANGED <<headerList, syncPeer, chainBest>>

\* C33: a call of fetchHeaderBlocks asks the sync peer, in one getdata, for
\* the first MaxInvPerMsg blocks from startHeader on that the chain lacks,
\* records each in the global and the sync peer's requestedBlocks, passes
\* over the blocks the chain has, and leaves startHeader at the node after
\* the last one examined, nil at the end of the list.
C33_FetchHeaderBlocks == [][C33_Fetch]_vars

\* a call that passed over a block, asked for MaxInvPerMsg and stopped
\* before the end of the list
C33_Witness ==
    /\ out.kind = "fetch"
    /\ out.getdata = MaxInvPerMsg
    /\ startHeader # Nil
    /\ headerList[1].hash \in Ancestors(chainBest)
    /\ Cardinality(requestedBlocks) = MaxInvPerMsg

\* a call that reached the end of the list
C33_WitnessEnd ==
    /\ out.kind = "fetch"
    /\ out.getdata > 0
    /\ startHeader = Nil

(***************************************************************************)
(* C34                                                                     *)
(***************************************************************************)
\* C34: in headers-first mode there is a sync peer and it has a peer state,
\* so that fetchHeaderBlocks finds the state it writes to.
C34_SyncPeerInHeadersFirst ==
    /\ headersFirstMode => syncPeer # Nil /\ syncPeer \in DOMAIN peerStates
    /\ headersFirstMode /\ ~panicked => ~fetchHeaderBlocks(SM).panicked

\* headers-first mode with blocks to fetch, a peer other than the sync peer
\* having left
C34_Witness ==
    /\ headersFirstMode
    /\ startHeader # Nil
    /\ out.kind = "donePeer"
    /\ DOMAIN peerStates # {}

\* headers-first mode after a call of fetchHeaderBlocks
C34_WitnessFetched ==
    /\ headersFirstMode
    /\ requestedBlocks # {}
    /\ out.kind = "block"

(***************************************************************************)
(* C35                                                                     *)
(***************************************************************************)
\* a headers message was refused in headers-first mode: a header did not
\* follow the tail of the list, or did not match the checkpoint
C35_Rejected ==
    headersFirstMode /\ out'.kind = "headers" /\ out'.disconnect

\* C35: a headers message that is refused leaves headerList and startHeader
\* as they were; the headers before the one that failed are not kept.
C35_RejectedLeavesList ==
    [][C35_Rejected => UNCHANGED <<headerList, startHeader>>]_vars

\* what holds: the list has grown by the headers up to the one that failed,
\* that one included when it is the checkpoint that did not match, and
\* nothing else of the SyncManager has changed
C35_RejectedKeepsPrefix ==
    [][C35_Rejected =>
          /\ Len(headerList') >= Len(headerList)
          /\ SubSeq(headerList', 1, Len(headerList)) = headerList
          /\ Len(headerList') <= Len(headerList) + MaxHeaders
          /\ startHeader # Nil => startHeader' = startHeader
          /\ startHeader = Nil /\ Len(headerList') > Len(headerList)
                 => startHeader' = headerList'[Len(headerList) + 1].hash
          /\ UNCHANGED <<requestedBlocks, peerStates, syncPeer, headersFirstMode,
                         nextCheckpoint, chainBest>>]_vars

\* a refused message has left a header in the list, and the header that did
\* not match the checkpoint
C35_HeaderKept ==
    /\ out.kind = "headers" /\ out.disconnect /\ headersFirstMode
    /\ Len(headerList) > 1

C35_BadCheckpointKept ==
    /\ out.kind = "headers" /\ out.disconnect /\ headersFirstMode
    /\ ForkBlock \in ListHashes(headerList)

(***************************************************************************)
(* C36                                                                     *)
(***************************************************************************)
\* the peers that owe block h
C36_Owing(h) == {p \in DOMAIN peerStates : h \in peerStates[p].requestedBlocks}

\* C36: a block is in the requestedBlocks of at most one peer.
C36_OneOwner ==
    \A h \in Blocks \cup {ForkBlock} : Cardinality(C36_Owing(h)) <= 1

\* what holds: a handler adds a block to the requestedBlocks of a peer only
\* if the global map did not hold it, or if the peer is the sync peer in
\* headers-first mode
C36_AskedOnceWhileRecorded ==
    [][\A p \in DOMAIN peerStates' : \A h \in peerStates'[p].requestedBlocks :
          \/ p \in DOMAIN peerStates /\ h \in peerStates[p].requestedBlocks
          \/ h \notin requestedBlocks
          \/ headersFirstMode /\ p = syncPeer]_vars

\* two peers owe the same block and the global map holds it
C36_TwoOwners ==
    \E h \in Blocks : Cardinality(C36_Owing(h)) = 2 /\ h \in requestedBlocks

(***************************************************************************)
(* C37                                                                     *)
(***************************************************************************)
\* C37: every call of ProcessBlock, IsCurrent, SyncPeerID and Pause returns
\* in the end, whatever Stop does meanwhile.
C37_CallsReturn ==
    /\ \A c \in ProcessCalls : (pbPc[c] = "sent") ~> (pbPc[c] = "returned")
    /\ \A c \in AskCalls : (askPc[c] = "calling") ~> (askPc[c] = "returned")
    /\ (pausePc = "calling") ~> (pausePc \in {"sent", "closed"})

\* what holds: a call returns in the end unless quit is closed
C37_ReturnUnlessQuit ==
    /\ \A c \in ProcessCalls : (pbPc[c] = "sent") ~> (pbPc[c] = "returned" \/ quit)
    /\ \A c \in AskCalls : (askPc[c] = "calling") ~> (askPc[c] = "returned" \/ quit)
    /\ (pausePc = "calling") ~> (pausePc \in {"sent", "closed"} \/ quit)

\* blockHandler has exited and a caller waits for its reply; and a caller
\* waits to send on a full msgChan
C37_LeftWaiting ==
    /\ handlerPc = "exited"
    /\ \E c \in ProcessCalls : pbPc[c] = "sent" /\ reply[c] = << >>

C37_LeftSending ==
    /\ handlerPc = "exited"
    /\ Len(msgChan) = MsgChanCap
    /\ \/ pausePc = "calling"
       \/ \E c \in AskCalls : askPc[c] = "calling"


(***************************************************************************)
(* The claim about the responses of blockHandler to a processBlockMsg.     *)
(***************************************************************************)
\* once the caller has its response, nothing more is sent on its reply
\* channel: the channel is empty and blockHandler has no send for it left
C38_Once ==
    \A c \in ProcessCalls :
        pbPc[c] = "returned" =>
            /\ reply[c] = << >>
            /\ ~(handlerPc \in {"replyErr", "reply"} /\ cur.c = c)

\* at a send, the reply channel has room
C38_NeverBlocks ==
    handlerPc \in {"replyErr", "reply"} => Len(reply[cur.c]) < 1

\* C38: for each processBlockMsg blockHandler sends exactly one
\* processBlockResponse on the reply channel of the message, when
\* chain.ProcessBlock succeeds and when it returns an error, and it never
\* blocks on that send.
C38_OneResponse == []C38_Once /\ []C38_NeverBlocks

\* what does hold: after a success one response is sent, without waiting, and
\* the first send after an error does not wait either
C38_OneOnSuccess ==
    /\ handlerPc = "replyErr" => reply[cur.c] = << >>
    /\ handlerPc = "reply" /\ chainRes[cur.c].err = "none" => reply[cur.c] = << >>
    /\ \A c \in ProcessCalls :
         pbPc[c] = "returned" /\ chainRes[c].err = "none" =>
             /\ reply[c] = << >>
             /\ ~(handlerPc \in {"replyErr", "reply"} /\ cur.c = c)

\* after an error: blockHandler waits at its second send for the caller to
\* take the first response
C38_Blocked ==
    /\ handlerPc = "reply"
    /\ chainRes[cur.c].err # "none"
    /\ reply[cur.c] = << errResponse(chainRes[cur.c]) >>

\* after an error: the caller has returned and a second response lies in
\* the reply channel
C38_SecondLeft ==
    \E c \in ProcessCalls :
        /\ pbPc[c] = "returned"
        /\ result[c] = errResponse(chainRes[c])
        /\ reply[c] = << okResponse(chainRes[c]) >>


(***************************************************************************)
(* The claim about the number of connections.                              *)
(***************************************************************************)
\* the NewConnReq goroutines that may still bring a connection: those not
\* begun, and those that have not got their result to connHandler
InFlight ==
    launched + Cardinality({id \in DOMAIN reqPc :
                               reqPc[id] \in {"register", "address", "connected", "failed"}})

\* C39: with connections requested through the address source alone (Start
\* and the NewConnReq calls that follow from it, no Connect from outside),
\* conns never has more than TargetOutbound entries, whatever dials succeed
\* or fail and whatever Disconnect and Remove are called.
C39_AtMostTarget == Cardinality(conns) <= Cfg.TargetOutbound

\* why: the connections and the attempts under way together are never more
\* than the target
C39_Balance == Cardinality(conns) + InFlight <= Cfg.TargetOutbound

\* the target is met, after a dial has failed and a connection has been
\* disconnected and replaced
C39_Witness ==
    /\ Cardinality(conns) = Cfg.TargetOutbound
    /\ Cfg.TargetOutbound = MaxTargetOutbound
    /\ \E id \in DOMAIN connReqs : connReqs[id].state = "ConnFailing"
    /\ \E id \in pending : reqPc[id] = "done" /\ connReqs[id].state = "ConnPending"

\* Remove has taken a connection away and nothing replaces it
C39_WitnessRemoved ==
    /\ \E id \in DOMAIN connReqs : connReqs[id].state = "ConnDisconnected"
    /\ Cardinality(conns) + InFlight < Cfg.TargetOutbound
    /\ conns # {}


(***************************************************************************)
(* The claim about the entries of pending.                                 *)
(***************************************************************************)
\* the NewConnReq of the request is still on its way to a dial or to
\* connHandler with the result of one
C40_Dialling(id) == reqPc[id] \in {"address", "connected", "failed"}

\* C40: every ConnReq in pending has a dial in progress or a retry scheduled
\* for that same ConnReq; pending keeps no entry that will not be dialled
\* again (a request that is not persistent after its dial failed, after its
\* connection was disconnected with retry, or after Connect skipped it
\* because the target is one of the manager's own listener addresses).
\* The requests here all come from NewConnReq, so none is persistent and no
\* retry is ever scheduled for a request itself.
C40_PendingIsLive ==
    \A id \in pending : ~connReqs[id].Permanent /\ C40_Dialling(id)

\* what does hold: an entry of pending that is not being dialled is one
\* whose dial failed, whose connection was disconnected with retry, or
\* whose NewConnReq returned from Connect or from a select on quit without
\* a dial
C40_RetainedAs ==
    \A id \in pending :
        \/ C40_Dialling(id)
        \/ reqPc[id] = "done" /\ connReqs[id].state \in {"ConnFailing", "ConnPending"}
        \/ reqPc[id] \in {"skipped", "stopped", "quit"} /\ connReqs[id].state = "ConnPending"

\* kept in pending for good: after a failed dial, with its replacement
\* connected
C40_KeptAfterFailure ==
    \E id \in pending :
        /\ reqPc[id] = "done" /\ connReqs[id].state = "ConnFailing"
        /\ stop = 0 /\ conns # {} /\ launched = 0
        /\ \A other \in DOMAIN reqPc : ~C40_Dialling(other) /\ reqPc[other] # "register"

\* after Disconnect of its connection
C40_KeptAfterDisconnect ==
    \E id \in pending :
        /\ reqPc[id] = "done" /\ connReqs[id].state = "ConnPending"
        /\ stop = 0 /\ conns # {} /\ launched = 0
        /\ \A other \in DOMAIN reqPc : ~C40_Dialling(other) /\ reqPc[other] # "register"

\* after Connect returned at the listener address
C40_KeptAfterSkip ==
    \E id \in pending :
        /\ reqPc[id] = "skipped"
        /\ stop = 0 /\ launched = 0
        /\ \A other \in DOMAIN reqPc : ~C40_Dialling(other) /\ reqPc[other] # "register"

====
